---- MODULE Spec2Model ----
(***************************************************************************)
(* mastering-rotation: the rotation calculators (rotation chain, axis      *)
(* swap, representation converter) and the conversion functions of         *)
(* utils/rotation.ts they are built on.                                     *)
(*                                                                         *)
(* Numbers.  The code computes with IEEE doubles; the model computes with  *)
(* exact real numbers of the field Q(sqrt 2, sqrt 3), which holds the sine *)
(* and cosine of every multiple of 15 degrees, so every angle that is a    *)
(* multiple of 30 degrees (half angle a multiple of 15 degrees) is         *)
(* computed without rounding.  A number is the tuple <<a, b, c, d, n>>     *)
(* standing for (a + b*sqrt2 + c*sqrt3 + d*sqrt6) / n with n > 0 and the   *)
(* five integers coprime, so that equal numbers are equal tuples.  The     *)
(* three values that are not finite are written with n = 0: Infinity is    *)
(* <<1, 0, 0, 0, 0>>, -Infinity is <<-1, 0, 0, 0, 0>>, NaN is              *)
(* <<0, 0, 0, 0, 0>>; the operators follow IEEE 754 on them.               *)
(*                                                                         *)
(* Angles.  An angle in degrees is an integer.  An angle in radians is an  *)
(* integer count of pi/12 (15 degrees), so DEG_TO_RAD and RAD_TO_DEG are   *)
(* real conversions (division and multiplication by 15).                   *)
(***************************************************************************)
EXTENDS Integers, Sequences, FiniteSets, TLC

VARIABLES
  \* hooks/useAxisSwap.ts and the `swap` key of the URL
  mapping,          \* AxisMapping: the image of each original axis
  mappingIsConst,   \* TRUE while `mapping` is the IDENTITY_MAPPING object itself
  swapParam,        \* the `swap` query value, a text; <<>> if absent
  \* hooks/useRotation.ts and the `chain` key of the URL
  steps,            \* the chain: a sequence of [id, axis, angleDeg]
  stepIdCounter,    \* the module-level id counter
  urlUpdateTimer,   \* the pending debounced URL writes, in the order set: the steps of each
  chainParam,       \* the `chain` query value, a text; <<>> if absent
  chainMounted,     \* the chain tab is the active tab: its content is rendered
  \* components/rotation/RotationStep.tsx, the component of the first step
  isEditing,        \* the angle field has the focus
  editValue,        \* the text of the angle field, as the number it parses to
  \* components/converter/RotationConverter.tsx
  inputType,        \* "euler", "quaternion", "axis-angle" or "matrix"
  angleUnit,        \* "deg" or "rad" (SettingsContext)
  eulerFields,      \* eulerRoll, eulerPitch, eulerYaw as the numbers they parse to
  quatFields,       \* quatX, quatY, quatZ, quatW
  axisFields,       \* axisX, axisY, axisZ, axisAngle
  mFields,          \* m00 .. m22, row-major
  \* hooks/useUrlState.ts
  search            \* window.location.search as a whole, a text: <<>> or "?" and the
                    \* query; the tabs above keep the one key they read and write in
                    \* swapParam and chainParam

swapVars == <<mapping, mappingIsConst, swapParam>>
stepFieldVars == <<isEditing, editValue>>
chainVars == <<steps, stepIdCounter, urlUpdateTimer, chainParam, chainMounted, stepFieldVars>>
converterVars == <<inputType, angleUnit, eulerFields, quatFields, axisFields, mFields>>
vars == <<swapVars, chainVars, converterVars, search>>

---------------------------------------------------------------------------
(* Exact arithmetic of JavaScript numbers on Q(sqrt 2, sqrt 3).            *)

IAbs(i) == IF i < 0 THEN -i ELSE i

RECURSIVE Gcd(_, _)
Gcd(m, n) == IF n = 0 THEN m ELSE Gcd(n, m % n)

Lcm(m, n) == (m \div Gcd(m, n)) * n

\* The number (a + b*sqrt2 + c*sqrt3 + d*sqrt6) / n in lowest terms, n # 0.
Num(a, b, c, d, n) ==
  LET g == Gcd(Gcd(Gcd(IAbs(a), IAbs(b)), Gcd(IAbs(c), IAbs(d))), IAbs(n))
      s == IF n < 0 THEN -g ELSE g
  IN  <<a \div s, b \div s, c \div s, d \div s, n \div s>>

Whole(i) == <<i, 0, 0, 0, 1>>
Rat(p, q) == Num(p, 0, 0, 0, q)
Zero == Whole(0)
One == Whole(1)
Two == Whole(2)
Sqrt2 == <<0, 1, 0, 0, 1>>
Sqrt3 == <<0, 0, 1, 0, 1>>

Infinity == <<1, 0, 0, 0, 0>>
NegInfinity == <<-1, 0, 0, 0, 0>>
NaN == <<0, 0, 0, 0, 0>>

\* Number.isFinite(x), Number.isNaN(x)
IsFinite(x) == x[5] # 0
IsNaN(x) == x = NaN

\* x + y
Add(x, y) ==
  IF IsFinite(x) /\ IsFinite(y)
  THEN LET n == Lcm(x[5], y[5])
           p == n \div x[5]
           q == n \div y[5]
       IN  Num(x[1] * p + y[1] * q, x[2] * p + y[2] * q,
               x[3] * p + y[3] * q, x[4] * p + y[4] * q, n)
  ELSE IF IsNaN(x) \/ IsNaN(y) THEN NaN
  ELSE IF IsFinite(y) THEN x
  ELSE IF IsFinite(x) THEN y
  ELSE IF x = y THEN x
  ELSE NaN

\* -x
Neg(x) == <<-x[1], -x[2], -x[3], -x[4], x[5]>>

\* x - y
Sub(x, y) == Add(x, Neg(y))

\* x * y on finite numbers
MulFinite(x, y) ==
  Num(x[1] * y[1] + 2 * x[2] * y[2] + 3 * x[3] * y[3] + 6 * x[4] * y[4],
      x[1] * y[2] + x[2] * y[1] + 3 * (x[3] * y[4] + x[4] * y[3]),
      x[1] * y[3] + x[3] * y[1] + 2 * (x[2] * y[4] + x[4] * y[2]),
      x[1] * y[4] + x[4] * y[1] + x[2] * y[3] + x[3] * y[2],
      x[5] * y[5])

ISign(i) == IF i > 0 THEN 1 ELSE IF i < 0 THEN -1 ELSE 0

\* The sign of u + v*sqrt2 for integers u, v.
SignQ2(u, v) ==
  IF u >= 0 /\ v >= 0 THEN (IF u = 0 /\ v = 0 THEN 0 ELSE 1)
  ELSE IF u <= 0 /\ v <= 0 THEN -1
  ELSE IF u > 0 THEN ISign(u * u - 2 * v * v)
  ELSE ISign(2 * v * v - u * u)

\* Math.sign(x): x = P + Q*sqrt3 with P = a + b*sqrt2 and Q = c + d*sqrt2.
Sign(x) ==
  LET sP == SignQ2(x[1], x[2])
      sQ == SignQ2(x[3], x[4])
      \* P*P - 3*Q*Q, again of the form u + v*sqrt2
      sD == SignQ2(x[1] * x[1] + 2 * x[2] * x[2] - 3 * x[3] * x[3] - 6 * x[4] * x[4],
                   2 * x[1] * x[2] - 6 * x[3] * x[4])
  IN  IF sP >= 0 /\ sQ >= 0 THEN (IF sP = 0 /\ sQ = 0 THEN 0 ELSE 1)
      ELSE IF sP <= 0 /\ sQ <= 0 THEN -1
      ELSE IF sP > 0 THEN sD
      ELSE -sD

\* x * y
Mul(x, y) ==
  IF IsFinite(x) /\ IsFinite(y) THEN MulFinite(x, y)
  ELSE IF IsNaN(x) \/ IsNaN(y) \/ x = <<0, 0, 0, 0, 1>> \/ y = <<0, 0, 0, 0, 1>> THEN NaN
  ELSE IF Sign(x) * Sign(y) > 0 THEN Infinity
  ELSE NegInfinity

\* The order of two numbers neither of which is NaN: -1, 0 or 1.
Compare(x, y) ==
  IF IsFinite(x) /\ IsFinite(y) THEN Sign(Sub(x, y))
  ELSE IF x = y THEN 0
  ELSE IF x = NegInfinity \/ y = Infinity THEN -1
  ELSE 1

\* x < y, x <= y, x > y (false when either is NaN)
Lt(x, y) == ~IsNaN(x) /\ ~IsNaN(y) /\ Compare(x, y) < 0
Le(x, y) == ~IsNaN(x) /\ ~IsNaN(y) /\ Compare(x, y) <= 0
Gt(x, y) == ~IsNaN(x) /\ ~IsNaN(y) /\ Compare(x, y) > 0

\* Math.abs(x)
Abs(x) == IF Sign(x) < 0 THEN Neg(x) ELSE x

\* Math.max(x, y): NaN if either is NaN
Max(x, y) == IF IsNaN(x) \/ IsNaN(y) THEN NaN ELSE IF Lt(x, y) THEN y ELSE x

\* The conjugates sqrt3 -> -sqrt3 and sqrt2 -> -sqrt2.
Conj3(x) == <<x[1], x[2], -x[3], -x[4], x[5]>>
Conj2(x) == <<x[1], -x[2], x[3], -x[4], x[5]>>

\* 1 / x for finite x # 0: directly for a rational multiple of 1, sqrt2, sqrt3 or
\* sqrt6; otherwise x * Conj3(x) lies in Q(sqrt2), and that times its Conj2 is
\* rational.
Recip(x) ==
  IF x[2] = 0 /\ x[3] = 0 /\ x[4] = 0 THEN Rat(x[5], x[1])
  ELSE IF x[1] = 0 /\ x[3] = 0 /\ x[4] = 0 THEN Num(0, x[5], 0, 0, 2 * x[2])
  ELSE IF x[1] = 0 /\ x[2] = 0 /\ x[4] = 0 THEN Num(0, 0, x[5], 0, 3 * x[3])
  ELSE IF x[1] = 0 /\ x[2] = 0 /\ x[3] = 0 THEN Num(0, 0, 0, x[5], 6 * x[4])
  ELSE LET y == Mul(x, Conj3(x))
           z == Mul(y, Conj2(y))
       IN  Mul(Mul(Conj3(x), Conj2(y)), Rat(z[5], z[1]))

\* x / y
Div(x, y) ==
  IF IsFinite(x) /\ IsFinite(y) /\ y # <<0, 0, 0, 0, 1>> THEN Mul(x, Recip(y))
  ELSE IF IsNaN(x) \/ IsNaN(y) THEN NaN
  ELSE IF IsFinite(y) THEN (IF Sign(x) = 0 THEN NaN
                            ELSE IF Sign(x) > 0 THEN Infinity ELSE NegInfinity)
  ELSE IF IsFinite(x) THEN <<0, 0, 0, 0, 1>>
  ELSE NaN

\* The largest r in lo..hi with r * r <= k, for lo * lo <= k.
RECURSIVE ISqrtIn(_, _, _)
ISqrtIn(k, lo, hi) ==
  IF lo = hi THEN lo
  ELSE LET mid == (lo + hi + 1) \div 2
       IN  IF mid * mid <= k THEN ISqrtIn(k, mid, hi) ELSE ISqrtIn(k, lo, mid - 1)

\* The square roots of the integer k >= 0 among the integers.
RootsInt(k) ==
  LET r == ISqrtIn(k, 0, IF k < 46340 THEN k ELSE 46340)
  IN  IF r * r = k THEN {r} ELSE {}

\* The non-negative square roots of the rational x among the rationals: x is in
\* lowest terms, so both its terms are squares.
RootsQ(x) ==
  IF x[1] < 0 THEN {}
  ELSE {Rat(r, d) : r \in RootsInt(x[1]), d \in RootsInt(x[5])}

\* The non-negative square roots, in Q(sqrt2), of x = P + Q*sqrt2 (P, Q rational):
\* A + B*sqrt2 with A*A one of (P +- sqrt(P*P - 2*Q*Q)) / 2 and B = Q / (2*A).
RootsQ2(x) ==
  IF x[2] = 0
  THEN RootsQ(x) \cup {Mul(Sqrt2, r) : r \in RootsQ(Div(x, Two))}
  ELSE LET P == Num(x[1], 0, 0, 0, x[5])
           Q == Num(x[2], 0, 0, 0, x[5])
           T == UNION {{Div(Add(P, D), Two), Div(Sub(P, D), Two)} :
                         D \in RootsQ(Sub(Mul(P, P), Mul(Two, Mul(Q, Q))))}
           A == UNION {RootsQ(t) : t \in T} \ {Zero}
       IN  {r \in {Abs(Add(a, Mul(Div(Q, Mul(Two, a)), Sqrt2))) : a \in A} :
              Mul(r, r) = x}

\* The non-negative square roots of x = P + Q*sqrt3 (P, Q in Q(sqrt2)) in the field.
Roots(x) ==
  IF x[3] = 0 /\ x[4] = 0
  THEN RootsQ2(x) \cup {Mul(Sqrt3, r) : r \in RootsQ2(Div(x, Whole(3)))}
  ELSE LET P == Num(x[1], x[2], 0, 0, x[5])
           Q == Num(x[3], x[4], 0, 0, x[5])
           T == UNION {{Div(Add(P, D), Two), Div(Sub(P, D), Two)} :
                         D \in RootsQ2(Sub(Mul(P, P), Mul(Whole(3), Mul(Q, Q))))}
           A == UNION {RootsQ2(t) : t \in T} \ {Zero}
       IN  {r \in {Abs(Add(a, Mul(Div(Q, Mul(Two, a)), Sqrt3))) : a \in A} :
              Mul(r, r) = x}

\* Math.sqrt(x): for finite x >= 0, defined where the root lies in the field.
Sqrt(x) ==
  IF IsNaN(x) \/ Sign(x) < 0 THEN NaN
  ELSE IF x = Infinity THEN Infinity
  ELSE CHOOSE r \in Roots(x) : TRUE

\* x < 10^(-k) for x >= 0, decided without forming 10^k: x < 1 and 10*x < 10^(1-k).
RECURSIVE BelowPow10(_, _)
BelowPow10(x, k) ==
  Lt(x, One) /\ (k = 0 \/ BelowPow10(Mul(Whole(10), x), k - 1))

\* The decimal exponent of the degeneracy threshold 1e-10.
EpsilonExponent == 10

\* x < 1e-10
BelowEpsilon(x) == BelowPow10(x, EpsilonExponent)

\* x > 10^(-k), decided without forming 10^k: x >= 1 (k > 0) or 10*x > 10^(1-k).
RECURSIVE AbovePow10(_, _)
AbovePow10(x, k) ==
  \/ Gt(x, One)
  \/ k > 0 /\ (x = One \/ AbovePow10(Mul(Whole(10), x), k - 1))

\* x > 1e-10
AboveEpsilon(x) == AbovePow10(x, EpsilonExponent)

---------------------------------------------------------------------------
(* Angles and trigonometry.                                                *)

\* p / q for integers, defined only where it is exact, so that an angle off the
\* grid stops the check instead of being rounded.
Exact(p, q) == CHOOSE k \in {p \div q} : k * q = p

\* angleDeg * DEG_TO_RAD: degrees to radians (a count of pi/12).
DEG_TO_RAD(deg) == Exact(deg, 15)

\* The conversion forgotten: the radians returned as they are.
RAD_TO_DEG_Forgotten(rad) == rad

\* rad * RAD_TO_DEG: radians (a count of pi/12) to degrees.
RAD_TO_DEG(rad) == rad * 15

\* Math.PI / 2 in radians (a count of pi/12).
HalfPi == 6

\* cos of 0, 15, 30, 45, 60, 75 and 90 degrees.
CosTable ==
  <<One, Num(0, 1, 0, 1, 4), Num(0, 0, 1, 0, 2), Num(0, 1, 0, 0, 2),
    Num(1, 0, 0, 0, 2), Num(0, -1, 0, 1, 4), Zero>>

\* Math.cos(rad)
Cos(rad) ==
  LET k == rad % 24
  IN  IF k <= 6 THEN CosTable[k + 1]
      ELSE IF k <= 12 THEN Neg(CosTable[13 - k])
      ELSE IF k <= 18 THEN Neg(CosTable[k - 11])
      ELSE CosTable[25 - k]

\* Math.sin(rad)
Sin(rad) == Cos(rad - 6)

\* Math.asin(s): the angle in [-pi/2, pi/2] whose sine is s.
Asin(s) == CHOOSE k \in -6..6 : Sin(k) = s

\* Math.atan2(y, x): the angle in (-pi, pi] of the direction (x, y); 0 for (0, 0).
Atan2(y, x) ==
  IF y = Zero /\ x = Zero THEN 0
  ELSE CHOOSE k \in -11..12 :
         /\ Mul(Sin(k), x) = Mul(Cos(k), y)
         /\ Sign(Add(Mul(Cos(k), x), Mul(Sin(k), y))) > 0

---------------------------------------------------------------------------
(* utils/rotation.ts                                                       *)

Axes == {"x", "y", "z"}

identityQuaternion == [x |-> Zero, y |-> Zero, z |-> Zero, w |-> One]

axisAngleToQuaternion(axis, angleDeg) ==
  LET halfAngle == Exact(DEG_TO_RAD(angleDeg), 2)
      s == Sin(halfAngle)
      c == Cos(halfAngle)
  IN  CASE axis = "x" -> [x |-> s, y |-> Zero, z |-> Zero, w |-> c]
        [] axis = "y" -> [x |-> Zero, y |-> s, z |-> Zero, w |-> c]
        [] axis = "z" -> [x |-> Zero, y |-> Zero, z |-> s, w |-> c]

\* The product with the cross terms of z given the wrong signs.
multiplyQuaternionsCrossSign(q1, q2) ==
  [w |-> Sub(Sub(Sub(Mul(q1.w, q2.w), Mul(q1.x, q2.x)), Mul(q1.y, q2.y)), Mul(q1.z, q2.z)),
   x |-> Sub(Add(Add(Mul(q1.w, q2.x), Mul(q1.x, q2.w)), Mul(q1.y, q2.z)), Mul(q1.z, q2.y)),
   y |-> Add(Add(Sub(Mul(q1.w, q2.y), Mul(q1.x, q2.z)), Mul(q1.y, q2.w)), Mul(q1.z, q2.x)),
   z |-> Add(Add(Sub(Mul(q1.w, q2.z), Mul(q1.x, q2.y)), Mul(q1.y, q2.x)), Mul(q1.z, q2.w))]

multiplyQuaternions(q1, q2) ==
  [w |-> Sub(Sub(Sub(Mul(q1.w, q2.w), Mul(q1.x, q2.x)), Mul(q1.y, q2.y)), Mul(q1.z, q2.z)),
   x |-> Sub(Add(Add(Mul(q1.w, q2.x), Mul(q1.x, q2.w)), Mul(q1.y, q2.z)), Mul(q1.z, q2.y)),
   y |-> Add(Add(Sub(Mul(q1.w, q2.y), Mul(q1.x, q2.z)), Mul(q1.y, q2.w)), Mul(q1.z, q2.x)),
   z |-> Add(Sub(Add(Mul(q1.w, q2.z), Mul(q1.x, q2.y)), Mul(q1.y, q2.x)), Mul(q1.z, q2.w))]

normalizeQuaternion(q) ==
  LET mag == Sqrt(Add(Add(Add(Mul(q.x, q.x), Mul(q.y, q.y)), Mul(q.z, q.z)), Mul(q.w, q.w)))
  IN  IF BelowEpsilon(mag) THEN identityQuaternion
      ELSE [x |-> Div(q.x, mag), y |-> Div(q.y, mag), z |-> Div(q.z, mag),
            w |-> Div(q.w, mag)]

\* Row-major: quaternionToMatrix(q)[i][j] is row i, column j, counted from 1.
quaternionToMatrix(q) ==
  LET x2 == Add(q.x, q.x)
      y2 == Add(q.y, q.y)
      z2 == Add(q.z, q.z)
      xx == Mul(q.x, x2)
      xy == Mul(q.x, y2)
      xz == Mul(q.x, z2)
      yy == Mul(q.y, y2)
      yz == Mul(q.y, z2)
      zz == Mul(q.z, z2)
      wx == Mul(q.w, x2)
      wy == Mul(q.w, y2)
      wz == Mul(q.w, z2)
  IN  <<<<Sub(One, Add(yy, zz)), Sub(xy, wz), Add(xz, wy)>>,
        <<Add(xy, wz), Sub(One, Add(xx, zz)), Sub(yz, wx)>>,
        <<Sub(xz, wy), Add(yz, wx), Sub(One, Add(xx, yy))>>>>

quaternionToEuler(q) ==
  LET sinr_cosp == Mul(Two, Add(Mul(q.w, q.x), Mul(q.y, q.z)))
      cosr_cosp == Sub(One, Mul(Two, Add(Mul(q.x, q.x), Mul(q.y, q.y))))
      roll == Atan2(sinr_cosp, cosr_cosp)
      sinp == Mul(Two, Sub(Mul(q.w, q.y), Mul(q.z, q.x)))
      pitch == IF ~Lt(Abs(sinp), One) THEN Sign(sinp) * HalfPi ELSE Asin(sinp)
      siny_cosp == Mul(Two, Add(Mul(q.w, q.z), Mul(q.x, q.y)))
      cosy_cosp == Sub(One, Mul(Two, Add(Mul(q.y, q.y), Mul(q.z, q.z))))
      yaw == Atan2(siny_cosp, cosy_cosp)
  IN  [roll |-> RAD_TO_DEG(roll), pitch |-> RAD_TO_DEG(pitch), yaw |-> RAD_TO_DEG(yaw)]

\* The loop with the new rotation multiplied from the right (body-frame order).
RECURSIVE chainLoopFromRight(_, _, _)
chainLoopFromRight(chain, i, result) ==
  IF i > Len(chain) THEN result
  ELSE LET rotation == axisAngleToQuaternion(chain[i].axis, chain[i].angleDeg)
       IN  chainLoopFromRight(chain, i + 1, multiplyQuaternions(result, rotation))

\* The loop of computeRotationChain: the steps from index i on folded into result.
RECURSIVE chainLoop(_, _, _)
chainLoop(chain, i, result) ==
  IF i > Len(chain) THEN result
  ELSE LET rotation == axisAngleToQuaternion(chain[i].axis, chain[i].angleDeg)
       IN  chainLoop(chain, i + 1, multiplyQuaternions(rotation, result))

\* `result = normalizeQuaternion(result)` after the loop, and the matrix of it.
chainQuaternion(chain) == normalizeQuaternion(chainLoop(chain, 1, identityQuaternion))
chainMatrix(chain) == quaternionToMatrix(chainQuaternion(chain))

computeRotationChain(chain) ==
  LET result == chainQuaternion(chain)
  IN  [quaternion |-> result, euler |-> quaternionToEuler(result),
       matrix |-> chainMatrix(chain)]

\* The half-angle products with the signs of the body-frame order qx*qy*qz.
eulerToQuaternionBodyFrame(euler) ==
  LET roll == DEG_TO_RAD(euler.roll)
      pitch == DEG_TO_RAD(euler.pitch)
      yaw == DEG_TO_RAD(euler.yaw)
      cr == Cos(Exact(roll, 2))
      sr == Sin(Exact(roll, 2))
      cp == Cos(Exact(pitch, 2))
      sp == Sin(Exact(pitch, 2))
      cy == Cos(Exact(yaw, 2))
      sy == Sin(Exact(yaw, 2))
  IN  normalizeQuaternion(
        [w |-> Sub(Mul(Mul(cr, cp), cy), Mul(Mul(sr, sp), sy)),
         x |-> Add(Mul(Mul(sr, cp), cy), Mul(Mul(cr, sp), sy)),
         y |-> Sub(Mul(Mul(cr, sp), cy), Mul(Mul(sr, cp), sy)),
         z |-> Add(Mul(Mul(cr, cp), sy), Mul(Mul(sr, sp), cy))])

eulerToQuaternion(euler) ==
  LET roll == DEG_TO_RAD(euler.roll)
      pitch == DEG_TO_RAD(euler.pitch)
      yaw == DEG_TO_RAD(euler.yaw)
      cr == Cos(Exact(roll, 2))
      sr == Sin(Exact(roll, 2))
      cp == Cos(Exact(pitch, 2))
      sp == Sin(Exact(pitch, 2))
      cy == Cos(Exact(yaw, 2))
      sy == Sin(Exact(yaw, 2))
  IN  normalizeQuaternion(
        [w |-> Add(Mul(Mul(cr, cp), cy), Mul(Mul(sr, sp), sy)),
         x |-> Sub(Mul(Mul(sr, cp), cy), Mul(Mul(cr, sp), sy)),
         y |-> Add(Mul(Mul(cr, sp), cy), Mul(Mul(sr, cp), sy)),
         z |-> Sub(Mul(Mul(cr, cp), sy), Mul(Mul(sr, sp), cy))])

\* The four branches of matrixToQuaternion (Shepperd's method), before the
\* final normalizeQuaternion.
shepperd(m) ==
  LET trace == Add(Add(m[1][1], m[2][2]), m[3][3])
      q == IF Gt(trace, Zero)
           THEN LET s == Div(Rat(1, 2), Sqrt(Add(trace, One)))
                IN  [w |-> Div(Rat(1, 4), s),
                     x |-> Mul(Sub(m[3][2], m[2][3]), s),
                     y |-> Mul(Sub(m[1][3], m[3][1]), s),
                     z |-> Mul(Sub(m[2][1], m[1][2]), s)]
           ELSE IF Gt(m[1][1], m[2][2]) /\ Gt(m[1][1], m[3][3])
           THEN LET s == Mul(Two, Sqrt(Sub(Sub(Add(One, m[1][1]), m[2][2]), m[3][3])))
                IN  [w |-> Div(Sub(m[3][2], m[2][3]), s),
                     x |-> Mul(Rat(1, 4), s),
                     y |-> Div(Add(m[1][2], m[2][1]), s),
                     z |-> Div(Add(m[1][3], m[3][1]), s)]
           ELSE IF Gt(m[2][2], m[3][3])
           THEN LET s == Mul(Two, Sqrt(Sub(Sub(Add(One, m[2][2]), m[1][1]), m[3][3])))
                IN  [w |-> Div(Sub(m[1][3], m[3][1]), s),
                     x |-> Div(Add(m[1][2], m[2][1]), s),
                     y |-> Mul(Rat(1, 4), s),
                     z |-> Div(Add(m[2][3], m[3][2]), s)]
           ELSE LET s == Mul(Two, Sqrt(Sub(Sub(Add(One, m[3][3]), m[1][1]), m[2][2])))
                IN  [w |-> Div(Sub(m[2][1], m[1][2]), s),
                     x |-> Div(Add(m[1][3], m[3][1]), s),
                     y |-> Div(Add(m[2][3], m[3][2]), s),
                     z |-> Mul(Rat(1, 4), s)]
  IN  q

\* The matrix read column-major: rows and columns exchanged.
matrixToQuaternionColumnMajor(m) ==
  normalizeQuaternion(shepperd([i \in 1..3 |-> [j \in 1..3 |-> m[j][i]]]))

matrixToQuaternion(m) == normalizeQuaternion(shepperd(m))

axisAngleVectorToQuaternion(axisX, axisY, axisZ, angleDeg) ==
  LET mag == Sqrt(Add(Add(Mul(axisX, axisX), Mul(axisY, axisY)), Mul(axisZ, axisZ)))
      halfAngle == Exact(DEG_TO_RAD(angleDeg), 2)
      s == Sin(halfAngle)
      c == Cos(halfAngle)
  IN  IF BelowEpsilon(mag) THEN identityQuaternion
      ELSE [x |-> Mul(Div(axisX, mag), s), y |-> Mul(Div(axisY, mag), s),
            z |-> Mul(Div(axisZ, mag), s), w |-> c]

---------------------------------------------------------------------------
(* Text.  A text is the sequence of its characters; a number written by a  *)
(* template literal is its decimal digits, and parseFloat reads the        *)
(* longest prefix that is a decimal number (texts with an exponent are not *)
(* entered).                                                               *)

Digits == <<"0", "1", "2", "3", "4", "5", "6", "7", "8", "9">>
isDigit(c) == \E d \in 1..10 : Digits[d] = c
digitValue(c) == (CHOOSE d \in 1..10 : Digits[d] = c) - 1

\* text.split(sep): the parts between the occurrences of sep.
RECURSIVE split(_, _)
split(text, sep) ==
  IF \A k \in 1..Len(text) : text[k] # sep THEN <<text>>
  ELSE LET i == CHOOSE k \in 1..Len(text) :
                  text[k] = sep /\ \A h \in 1..(k - 1) : text[h] # sep
       IN  <<SubSeq(text, 1, i - 1)>> \o split(SubSeq(text, i + 1, Len(text)), sep)

\* parts.join(sep)
RECURSIVE join(_, _)
join(parts, sep) ==
  IF parts = <<>> THEN <<>>
  ELSE IF Len(parts) = 1 THEN parts[1]
  ELSE parts[1] \o <<sep>> \o join(Tail(parts), sep)

\* `${n}` for a whole number n.
RECURSIVE naturalToText(_)
naturalToText(n) ==
  IF n < 10 THEN <<Digits[n + 1]>>
  ELSE naturalToText(n \div 10) \o <<Digits[(n % 10) + 1]>>
numberToText(n) == IF n < 0 THEN <<"-">> \o naturalToText(-n) ELSE naturalToText(n)

\* The number of digits text has from position i on.
RECURSIVE digitRun(_, _)
digitRun(text, i) ==
  IF i <= Len(text) /\ isDigit(text[i]) THEN 1 + digitRun(text, i + 1) ELSE 0

\* The value of the digits text[i .. j].
RECURSIVE digitsValue(_, _, _)
digitsValue(text, i, j) ==
  IF j < i THEN 0 ELSE 10 * digitsValue(text, i, j - 1) + digitValue(text[j])

RECURSIVE Pow10(_)
Pow10(k) == IF k = 0 THEN 1 ELSE 10 * Pow10(k - 1)

\* parseFloat(text): an optional sign, digits, an optional point and digits;
\* what follows is ignored; NaN if there is no digit.
parseFloat(text) ==
  LET signed == text # <<>> /\ text[1] \in {"-", "+"}
      first == IF signed THEN 2 ELSE 1
      whole == digitRun(text, first)
      point == first + whole
      fraction == IF point <= Len(text) /\ text[point] = "."
                  THEN digitRun(text, point + 1) ELSE 0
      magnitude == Add(Whole(digitsValue(text, first, point - 1)),
                       Rat(digitsValue(text, point + 1, point + fraction), Pow10(fraction)))
  IN  IF whole + fraction = 0 THEN NaN
      ELSE IF signed /\ text[1] = "-" THEN Neg(magnitude)
      ELSE magnitude

---------------------------------------------------------------------------
(* hooks/useUrlState.ts: the `swap` key                                    *)

VALID_SIGNED_AXES == {"x", "-x", "y", "-y", "z", "-z"}

\* The characters of a signed-axis label.
labelText(label) ==
  CASE label = "x" -> <<"x">>
    [] label = "-x" -> <<"-", "x">>
    [] label = "y" -> <<"y">>
    [] label = "-y" -> <<"-", "y">>
    [] label = "z" -> <<"z">>
    [] label = "-z" -> <<"-", "z">>

\* The label a text spells.
textLabel(value) == CHOOSE label \in VALID_SIGNED_AXES : labelText(label) = value

\* VALID_SIGNED_AXES.includes(value), of a text.
isValidSignedAxis(value) == \E label \in VALID_SIGNED_AXES : labelText(label) = value

\* No mapping: what getSwap returns as null.
NoMapping == [x |-> "", y |-> "", z |-> ""]

\* getSwap on the query value `param`; an absent or empty value is <<>>.
getSwap(param) ==
  IF param = <<>> THEN NoMapping
  ELSE LET parts == split(param, ".")
       IN  IF Len(parts) # 3 THEN NoMapping
           ELSE IF \/ ~isValidSignedAxis(parts[1])
                   \/ ~isValidSignedAxis(parts[2])
                   \/ ~isValidSignedAxis(parts[3])
           THEN NoMapping
           ELSE [x |-> textLabel(parts[1]), y |-> textLabel(parts[2]),
                 z |-> textLabel(parts[3])]

\* The value setSwap writes under `swap` with the labels in another order:
\* `${z}.${y}.${x}`.
setSwapReversed(m) ==
  labelText(m.z) \o <<".">> \o labelText(m.y) \o <<".">> \o labelText(m.x)

\* The value setSwap writes under `swap`: `${x}.${y}.${z}`.
setSwap(m) ==
  labelText(m.x) \o <<".">> \o labelText(m.y) \o <<".">> \o labelText(m.z)

---------------------------------------------------------------------------
(* hooks/useUrlState.ts: the `chain` key                                   *)

VALID_AXES == {"x", "y", "z"}

isValidAxis(value) == value \in VALID_AXES

\* The loop of getChain from the pair of index i (from 1) on; the ids are the
\* numbers of `step-url-${i}`.
RECURSIVE getChainLoop(_, _)
getChainLoop(pairs, i) ==
  IF i > Len(pairs) THEN <<>>
  ELSE LET pair == pairs[i]
           axis == IF pair = <<>> THEN "" ELSE pair[1]
           angleStr == SubSeq(pair, 3, Len(pair))
           angleDeg == parseFloat(angleStr)
       IN  IF ~isValidAxis(axis) THEN getChainLoop(pairs, i + 1)
           ELSE IF IsNaN(angleDeg) THEN getChainLoop(pairs, i + 1)
           ELSE <<[id |-> i - 1, axis |-> axis, angleDeg |-> angleDeg]>>
                  \o getChainLoop(pairs, i + 1)

\* getChain on the query value `param` (<<>> if absent or empty); null is <<>>.
getChain(param) ==
  IF param = <<>> THEN <<>>
  ELSE getChainLoop(split(param, "_"), 1)

\* A step written without the dot.
stepTextNoDot(s) == <<s.axis>> \o numberToText(s.angleDeg)

\* The text of one step, `${s.axis}.${s.angleDeg}`.
stepText(s) == <<s.axis, ".">> \o numberToText(s.angleDeg)

\* The value setChain writes under `chain`.
setChain(chain) == join([i \in 1..Len(chain) |-> stepText(chain[i])], "_")

---------------------------------------------------------------------------
(* hooks/useAxisSwap.ts                                                    *)

IDENTITY_MAPPING == [x |-> "x", y |-> "y", z |-> "z"]

\* A slip in the X table: -z is sent where z goes.
transformXTypo(positive, a) ==
  IF a = "y" THEN (IF positive THEN "z" ELSE "-z")
  ELSE IF a = "-y" THEN (IF positive THEN "-z" ELSE "z")
  ELSE IF a = "z" THEN (IF positive THEN "-y" ELSE "y")
  ELSE IF a = "-z" THEN (IF positive THEN "-y" ELSE "y")
  ELSE a

\* The inner function `transform` of applyRotation, branch axis === 'x'.
transformX(positive, a) ==
  IF a = "y" THEN (IF positive THEN "z" ELSE "-z")
  ELSE IF a = "-y" THEN (IF positive THEN "-z" ELSE "z")
  ELSE IF a = "z" THEN (IF positive THEN "-y" ELSE "y")
  ELSE IF a = "-z" THEN (IF positive THEN "y" ELSE "-y")
  ELSE a

\* The Y table with x sent to z and z to x in the same direction: a mirror
\* image, not a turn.
transformYExchange(positive, a) ==
  IF a = "z" THEN (IF positive THEN "x" ELSE "-x")
  ELSE IF a = "-z" THEN (IF positive THEN "-x" ELSE "x")
  ELSE IF a = "x" THEN (IF positive THEN "z" ELSE "-z")
  ELSE IF a = "-x" THEN (IF positive THEN "-z" ELSE "z")
  ELSE a

\* Branch axis === 'y'.
transformY(positive, a) ==
  IF a = "z" THEN (IF positive THEN "x" ELSE "-x")
  ELSE IF a = "-z" THEN (IF positive THEN "-x" ELSE "x")
  ELSE IF a = "x" THEN (IF positive THEN "-z" ELSE "z")
  ELSE IF a = "-x" THEN (IF positive THEN "z" ELSE "-z")
  ELSE a

\* The Z table with the two directions exchanged.
transformZMirrored(positive, a) ==
  IF a = "x" THEN (IF positive THEN "-y" ELSE "y")
  ELSE IF a = "-x" THEN (IF positive THEN "y" ELSE "-y")
  ELSE IF a = "y" THEN (IF positive THEN "x" ELSE "-x")
  ELSE IF a = "-y" THEN (IF positive THEN "-x" ELSE "x")
  ELSE a

\* The else branch (axis 'z').
transformZ(positive, a) ==
  IF a = "x" THEN (IF positive THEN "y" ELSE "-y")
  ELSE IF a = "-x" THEN (IF positive THEN "-y" ELSE "y")
  ELSE IF a = "y" THEN (IF positive THEN "-x" ELSE "x")
  ELSE IF a = "-y" THEN (IF positive THEN "x" ELSE "-x")
  ELSE a

transform(axis, positive, a) ==
  IF axis = "x" THEN transformX(positive, a)
  ELSE IF axis = "y" THEN transformY(positive, a)
  ELSE transformZ(positive, a)

\* The turn made in the opposite direction.
applyRotationReversed(m, axis, positive) ==
  [x |-> transform(axis, ~positive, m.x),
   y |-> transform(axis, ~positive, m.y),
   z |-> transform(axis, ~positive, m.z)]

applyRotation(m, axis, positive) ==
  [x |-> transform(axis, positive, m.x),
   y |-> transform(axis, positive, m.y),
   z |-> transform(axis, positive, m.z)]

\* axis.startsWith('-') and axis.replace('-', '') of a signed-axis label.
startsWithMinus(axis) == axis \in {"-x", "-y", "-z"}
baseAxis(axis) ==
  CASE axis \in {"x", "-x"} -> "x"
    [] axis \in {"y", "-y"} -> "y"
    [] axis \in {"z", "-z"} -> "z"

signedAxisToVector(axis) ==
  LET sign == IF startsWithMinus(axis) THEN Whole(-1) ELSE One
  IN  CASE baseAxis(axis) = "x" -> <<sign, Zero, Zero>>
        [] baseAxis(axis) = "y" -> <<Zero, sign, Zero>>
        [] baseAxis(axis) = "z" -> <<Zero, Zero, sign>>

\* The argument of Math.sqrt taken from the last branch whatever the matrix is.
mappingSqrtArgumentLastBranch(m) ==
  LET m00 == signedAxisToVector(m.x)[1]
      m11 == signedAxisToVector(m.y)[2]
      m22 == signedAxisToVector(m.z)[3]
  IN  Sub(Sub(Add(One, m22), m00), m11)

\* The argument of Math.sqrt in the branch of mappingToQuaternion that the
\* matrix selects.
mappingSqrtArgument(m) ==
  LET m00 == signedAxisToVector(m.x)[1]
      m11 == signedAxisToVector(m.y)[2]
      m22 == signedAxisToVector(m.z)[3]
      trace == Add(Add(m00, m11), m22)
  IN  IF Gt(trace, Zero) THEN Add(trace, One)
      ELSE IF Gt(m00, m11) /\ Gt(m00, m22) THEN Sub(Sub(Add(One, m00), m11), m22)
      ELSE IF Gt(m11, m22) THEN Sub(Sub(Add(One, m11), m00), m22)
      ELSE Sub(Sub(Add(One, m22), m00), m11)

\* The matrix built from the three vectors and the four branches on it, as
\* written inline in mappingToQuaternion.
mappingShepperd(m) ==
  LET xVec == signedAxisToVector(m.x)
      yVec == signedAxisToVector(m.y)
      zVec == signedAxisToVector(m.z)
      m00 == xVec[1]
      m01 == yVec[1]
      m02 == zVec[1]
      m10 == xVec[2]
      m11 == yVec[2]
      m12 == zVec[2]
      m20 == xVec[3]
      m21 == yVec[3]
      m22 == zVec[3]
      trace == Add(Add(m00, m11), m22)
      q == IF Gt(trace, Zero)
           THEN LET s == Div(Rat(1, 2), Sqrt(mappingSqrtArgument(m)))
                IN  [w |-> Div(Rat(1, 4), s),
                     x |-> Mul(Sub(m21, m12), s),
                     y |-> Mul(Sub(m02, m20), s),
                     z |-> Mul(Sub(m10, m01), s)]
           ELSE IF Gt(m00, m11) /\ Gt(m00, m22)
           THEN LET s == Mul(Two, Sqrt(mappingSqrtArgument(m)))
                IN  [w |-> Div(Sub(m21, m12), s),
                     x |-> Mul(Rat(1, 4), s),
                     y |-> Div(Add(m01, m10), s),
                     z |-> Div(Add(m02, m20), s)]
           ELSE IF Gt(m11, m22)
           THEN LET s == Mul(Two, Sqrt(mappingSqrtArgument(m)))
                IN  [w |-> Div(Sub(m02, m20), s),
                     x |-> Div(Add(m01, m10), s),
                     y |-> Mul(Rat(1, 4), s),
                     z |-> Div(Add(m12, m21), s)]
           ELSE LET s == Mul(Two, Sqrt(mappingSqrtArgument(m)))
                IN  [w |-> Div(Sub(m10, m01), s),
                     x |-> Div(Add(m02, m20), s),
                     y |-> Div(Add(m12, m21), s),
                     z |-> Mul(Rat(1, 4), s)]
  IN  q

\* x*x + y*y + z*z + w*w, the square of `len` in mappingToQuaternion.
lenSquared(q) == Add(Add(Add(Mul(q.x, q.x), Mul(q.y, q.y)), Mul(q.z, q.z)), Mul(q.w, q.w))

mappingToQuaternion(m) ==
  LET q == mappingShepperd(m)
      len == Sqrt(lenSquared(q))
  IN  [x |-> Div(q.x, len), y |-> Div(q.y, len), z |-> Div(q.z, len), w |-> Div(q.w, len)]

\* The `result` memo of useAxisSwap.
axisSwapResult ==
  LET quaternion == mappingToQuaternion(mapping)
  IN  [quaternion |-> quaternion, euler |-> quaternionToEuler(quaternion),
       matrix |-> quaternionToMatrix(quaternion)]

\* The query values the page may be opened with: none, every triple of valid
\* labels, and malformed ones (too few parts, too many, an unknown label).
SwapParams ==
  { <<>>,
    <<"x", ".", "y">>,
    <<"x", ".", "y", ".", "z", ".", "x">>,
    <<"x", ".", "q", ".", "z">>,
    <<"x", "y", "z">>,
    <<"x", ".", "y", ".", "z", ".">>,
    <<"x", ".", "-", "-", "y", ".", "z">>,
    <<"x", ".", ".", "z">> }
    \cup {join(<<labelText(a), labelText(b), labelText(c)>>, ".") :
            a \in VALID_SIGNED_AXES, b \in VALID_SIGNED_AXES, c \in VALID_SIGNED_AXES}

\* useState(() => getSwap() ?? IDENTITY_MAPPING); the first run of the effect only
\* sets `initialized`.
InitAxisSwap(params) ==
  /\ swapParam \in params
  /\ mapping = IF getSwap(swapParam) = NoMapping THEN IDENTITY_MAPPING
               ELSE getSwap(swapParam)
  /\ mappingIsConst = (getSwap(swapParam) = NoMapping)

\* setMapping(prev => applyRotation(prev, axis, positive)), then the effect:
\* setSwap(mapping).
rotate(axis, positive) ==
  /\ mapping' = applyRotation(mapping, axis, positive)
  /\ mappingIsConst' = FALSE
  /\ swapParam' = setSwap(mapping')

rotateX == \E positive \in BOOLEAN : rotate("x", positive) /\ UNCHANGED <<chainVars, converterVars, search>>
rotateY == \E positive \in BOOLEAN : rotate("y", positive) /\ UNCHANGED <<chainVars, converterVars, search>>
rotateZ == \E positive \in BOOLEAN : rotate("z", positive) /\ UNCHANGED <<chainVars, converterVars, search>>

\* setMapping(IDENTITY_MAPPING): setting the object the state already holds does
\* not re-render, so the effect does not run and nothing is written.
resetSwap ==
  /\ mapping' = IDENTITY_MAPPING
  /\ mappingIsConst' = TRUE
  /\ swapParam' = IF mappingIsConst THEN swapParam ELSE setSwap(IDENTITY_MAPPING)
  /\ UNCHANGED <<chainVars, converterVars, search>>

---------------------------------------------------------------------------
(* hooks/useRotation.ts (the version with the debounced URL update)        *)

\* The longest chain and the largest step id the model builds.
MaxSteps == 2
MaxStepId == 2

\* The angles (degrees) the model enters into a step.
ChainAngles == {-90, 0, 30, 90, 180}

\* A generateStepId that leaves the counter as it is.
generateStepIdNoIncrement(counter) == counter

\* `step-${++stepIdCounter}`: the id is modelled by its number.
generateStepId(counter) == counter + 1

createDefaultStep(counter) == [id |-> generateStepId(counter), axis |-> "x", angleDeg |-> 0]

\* The `result` memo of useRotation.
rotationResult == computeRotationChain(steps)

\* The `chain` values the page may be opened with: none, well-formed chains,
\* and chains with malformed segments.
ChainParams ==
  { <<>>,
    <<"y", ".", "9", "0", "_", "x", ".", "3", "0">>,
    <<"z", ".", "-", "9", "0">>,
    <<"x", ".", "1", "8", "0", "_", "q", ".", "1", "0">>,
    <<"x", "9", "0">>,
    <<"q", ".", "1", "0", "_", "x", ".">> }

\* The whole number of degrees of a step read from the URL.
wholeDegrees(v) == v[1]

\* useState(() => ...): the steps of getChain() with new ids, or
\* [createDefaultStep()] if there are none; the first run of the effect only sets
\* `initialized`.
InitChain(params) ==
  /\ chainParam \in params
  /\ LET urlSteps == getChain(chainParam)
     IN  IF Len(urlSteps) > 0
         THEN /\ steps = [i \in 1..Len(urlSteps) |->
                            [id |-> i, axis |-> urlSteps[i].axis,
                             angleDeg |-> wholeDegrees(urlSteps[i].angleDeg)]]
              /\ stepIdCounter = Len(urlSteps)
         ELSE /\ stepIdCounter = generateStepId(0)
              /\ steps = <<createDefaultStep(0)>>
  /\ urlUpdateTimer = <<>>
  /\ chainMounted = TRUE
  /\ isEditing = FALSE
  /\ editValue = NaN

\* The effect that follows every new `steps` array: clear the pending timer and
\* schedule setChain(steps).
\* clearTimeout(urlUpdateTimer.current): the ref holds the timer set last, which
\* is removed if it is still pending.
clearTimeout(timers) == IF timers = <<>> THEN <<>> ELSE SubSeq(timers, 1, Len(timers) - 1)

\* The effect without the clearing of the previous timer.
scheduleUrlUpdateNoClear(newSteps) == Append(urlUpdateTimer, newSteps)

scheduleUrlUpdate(newSteps) == Append(clearTimeout(urlUpdateTimer), newSteps)

\* The timer's callback, URL_UPDATE_DELAY after the last change: setChain(steps).
urlUpdateTimerFires ==
  \E i \in 1..Len(urlUpdateTimer) :
    /\ chainParam' = setChain(urlUpdateTimer[i])
    /\ urlUpdateTimer' = [k \in 1..(Len(urlUpdateTimer) - 1) |->
                            IF k < i THEN urlUpdateTimer[k] ELSE urlUpdateTimer[k + 1]]
    /\ UNCHANGED <<steps, stepIdCounter, chainMounted, stepFieldVars, swapVars, search, converterVars>>

\* handleTabChange to another tab: only the active tab's content is rendered, so
\* the chain tab is unmounted and the cleanup of the effect clears the timer.
\* `steps` keeps the chain as it was at the unmount.
leaveChainTab ==
  /\ chainMounted
  /\ chainMounted' = FALSE
  /\ urlUpdateTimer' = clearTimeout(urlUpdateTimer)
  /\ isEditing' = FALSE
  /\ editValue' = NaN
  /\ UNCHANGED <<steps, stepIdCounter, chainParam, swapVars, search, converterVars>>

\* handleTabChange back to the chain tab: useRotation is mounted anew, its steps
\* read from the URL with new ids (the module-level counter goes on), or the
\* default step.
enterChainTab ==
  /\ ~chainMounted
  /\ LET urlSteps == getChain(chainParam)
     IN  IF Len(urlSteps) > 0
         THEN /\ stepIdCounter + Len(urlSteps) <= MaxStepId
              /\ steps' = [i \in 1..Len(urlSteps) |->
                             [id |-> stepIdCounter + i, axis |-> urlSteps[i].axis,
                              angleDeg |-> wholeDegrees(urlSteps[i].angleDeg)]]
              /\ stepIdCounter' = stepIdCounter + Len(urlSteps)
         ELSE /\ stepIdCounter < MaxStepId
              /\ steps' = <<createDefaultStep(stepIdCounter)>>
              /\ stepIdCounter' = generateStepId(stepIdCounter)
  /\ chainMounted' = TRUE
  /\ UNCHANGED <<urlUpdateTimer, chainParam, stepFieldVars, swapVars, search, converterVars>>

addStep ==
  /\ chainMounted
  /\ Len(steps) < MaxSteps
  /\ stepIdCounter < MaxStepId
  /\ steps' = Append(steps, createDefaultStep(stepIdCounter))
  /\ stepIdCounter' = generateStepId(stepIdCounter)
  /\ urlUpdateTimer' = scheduleUrlUpdate(steps')
  /\ UNCHANGED <<chainParam, chainMounted, stepFieldVars, swapVars, search, converterVars>>

\* prev.filter(s => s.id !== id)
filterOutId(chain, id) == SelectSeq(chain, LAMBDA st : st.id # id)

\* The updater of removeStep without its test of the length.
removedStepsUnguarded(id) == filterOutId(steps, id)

\* if (prev.length <= 1) return prev; return prev.filter(...)
removedSteps(id) == IF Len(steps) <= 1 THEN steps ELSE filterOutId(steps, id)

\* With one step left the same array is returned: no re-render, no effect.
removeStep ==
  \E id \in 1..MaxStepId :
    /\ chainMounted
    /\ steps' = removedSteps(id)
    /\ urlUpdateTimer' = IF Len(steps) <= 1 THEN urlUpdateTimer ELSE scheduleUrlUpdate(steps')
    /\ UNCHANGED <<stepIdCounter, chainParam, chainMounted, stepFieldVars, swapVars, search, converterVars>>

\* prev.map(s => (s.id === id ? { ...s, axis, angleDeg } : s))
updatedSteps(id, axis, angleDeg) ==
  [i \in 1..Len(steps) |->
     IF steps[i].id = id
     THEN [id |-> steps[i].id, axis |-> axis, angleDeg |-> angleDeg]
     ELSE steps[i]]

updateStep ==
  \E id \in 1..MaxStepId, axis \in Axes, angleDeg \in ChainAngles :
    /\ chainMounted
    /\ steps' = updatedSteps(id, axis, angleDeg)
    /\ urlUpdateTimer' = scheduleUrlUpdate(steps')
    /\ UNCHANGED <<stepIdCounter, chainParam, chainMounted, stepFieldVars, swapVars, search, converterVars>>

resetChain ==
  /\ chainMounted
  /\ stepIdCounter < MaxStepId
  /\ steps' = <<createDefaultStep(stepIdCounter)>>
  /\ stepIdCounter' = generateStepId(stepIdCounter)
  /\ urlUpdateTimer' = scheduleUrlUpdate(steps')
  /\ UNCHANGED <<chainParam, chainMounted, stepFieldVars, swapVars, search, converterVars>>

---------------------------------------------------------------------------
(* components/converter/RotationConverter.tsx                              *)

InputTypes == {"euler", "quaternion", "axis-angle", "matrix"}

\* The Euler angles entered are the multiples of 30 degrees up to this many.
MaxEulerTurn == 7
EulerInputs == {30 * k : k \in -MaxEulerTurn..MaxEulerTurn}

\* The matrix entries entered; "Infinity" is entered in the first field alone.
MatrixInputs == {Whole(-1), Zero, One}
MatrixInputsAt(i, j) == IF i = 1 /\ j = 1 THEN MatrixInputs \cup {Infinity} ELSE MatrixInputs

\* The quaternion components entered.
QuatInputs == {Zero, One, Two, Infinity}

\* radToDeg of the `result` memo.
radToDeg(rad) == RAD_TO_DEG(rad)

\* `parseFloat(text) || 1` and `parseFloat(text) || 0` on the number the text
\* parses to: 0 and NaN are replaced.
orOne(v) == IF v = Zero \/ IsNaN(v) THEN One ELSE v
orZero(v) == IF IsNaN(v) THEN Zero ELSE v

\* Rational numbers just below and just above sqrt 2, sqrt 3 and sqrt 6.
SqrtBelow == <<Rat(8119, 5741), Rat(3691, 2131), Rat(2158, 881)>>
SqrtAbove == <<Rat(19601, 13860), Rat(5042, 2911), Rat(4801, 1960)>>

\* A rational number not above (up = FALSE) or not below (up = TRUE) finite x.
RationalBound(x, up) ==
  LET term(i) == IF (x[i + 1] > 0) = up
                 THEN Mul(Rat(x[i + 1], x[5]), SqrtAbove[i])
                 ELSE Mul(Rat(x[i + 1], x[5]), SqrtBelow[i])
  IN  Add(Add(Rat(x[1], x[5]), term(1)), Add(term(2), term(3)))

\* k * r for a rational r and a natural k, the common factor of k and the
\* denominator cancelled first.
Scaled(r, k) ==
  LET g == Gcd(k, r[5])
  IN  Rat((k \div g) * r[1], r[5] \div g)

\* The integer nearest to the rational r, halves away from zero.
RoundHalfAway(r) ==
  IF r[1] >= 0 THEN (2 * r[1] + r[5]) \div (2 * r[5])
  ELSE -((2 * (-r[1]) + r[5]) \div (2 * r[5]))

\* 10 to the number of decimals formatNumber keeps.
formatScale == 10000

\* formatNumber(n) read back by parseFloat: n.toFixed(4) as a number ("NaN" and
\* "Infinity" read back as themselves).  The rounding is made on rational
\* bounds of n and is defined where both bounds round to the same integer.
formatNumber(n) ==
  IF ~IsFinite(n) THEN n
  ELSE LET lo == RoundHalfAway(Scaled(RationalBound(n, FALSE), formatScale))
           hi == RoundHalfAway(Scaled(RationalBound(n, TRUE), formatScale))
       IN  Rat(CHOOSE k \in {lo} : k = hi, formatScale)

TOLERANCE == Rat(1, 100)

\* Math.sqrt(s) < 10^(-k) and Math.abs(Math.sqrt(s) - 1) > t for s >= 0 (or s
\* not finite) and 0 < t < 1, decided on s itself, whose root need not lie in
\* the field.
SqrtBelowPow10(s, k) == BelowPow10(s, 2 * k)
SqrtOffOneBy(s, t) ==
  \/ Gt(s, Mul(Add(One, t), Add(One, t)))
  \/ Lt(s, Mul(Sub(One, t), Sub(One, t)))

\* A ValidationResult; `error` is its message without the number quoted in it,
\* and the absent canNormalize of { valid: true } is read as false.
Valid == [valid |-> TRUE, error |-> "", canNormalize |-> FALSE]
Invalid(error, canNormalize) == [valid |-> FALSE, error |-> error, canNormalize |-> canNormalize]

\* The two tests in the other order.
validateQuaternionNormFirst(x, y, z, w) ==
  LET magSq == Add(Add(Add(Mul(x, x), Mul(y, y)), Mul(z, z)), Mul(w, w))
  IN  IF SqrtOffOneBy(magSq, TOLERANCE)
      THEN Invalid("Quaternion is not normalized", TRUE)
      ELSE IF SqrtBelowPow10(magSq, EpsilonExponent)
      THEN Invalid("Quaternion magnitude is zero", FALSE)
      ELSE Valid

validateQuaternion(x, y, z, w) ==
  LET magSq == Add(Add(Add(Mul(x, x), Mul(y, y)), Mul(z, z)), Mul(w, w))
  IN  IF SqrtBelowPow10(magSq, EpsilonExponent)
      THEN Invalid("Quaternion magnitude is zero", FALSE)
      ELSE IF SqrtOffOneBy(magSq, TOLERANCE)
      THEN Invalid("Quaternion is not normalized", TRUE)
      ELSE Valid

\* m * m^T, entry i, j.
RRT(m, i, j) ==
  Add(Add(Add(Zero, Mul(m[i][1], m[j][1])), Mul(m[i][2], m[j][2])), Mul(m[i][3], m[j][3]))

\* The loop over i, j from entry number n (row-major) on.
RECURSIVE maxErrorLoop(_, _, _)
maxErrorLoop(m, n, maxError) ==
  IF n > 9 THEN maxError
  ELSE LET i == ((n - 1) \div 3) + 1
           j == ((n - 1) % 3) + 1
           expected == IF i = j THEN One ELSE Zero
       IN  maxErrorLoop(m, n + 1, Max(maxError, Abs(Sub(RRT(m, i, j), expected))))

determinant(m) ==
  Add(Sub(Mul(m[1][1], Sub(Mul(m[2][2], m[3][3]), Mul(m[2][3], m[3][2]))),
          Mul(m[1][2], Sub(Mul(m[2][1], m[3][3]), Mul(m[2][3], m[3][1])))),
      Mul(m[1][3], Sub(Mul(m[2][1], m[3][2]), Mul(m[2][2], m[3][1]))))

validateRotationMatrix(m) ==
  LET det == determinant(m)
  IN  IF BelowEpsilon(Abs(det))
      THEN Invalid("Matrix is singular", FALSE)
      ELSE IF Lt(det, Zero)
      THEN Invalid("Matrix has negative determinant", FALSE)
      ELSE IF Gt(maxErrorLoop(m, 1, Zero), TOLERANCE)
      THEN Invalid("Matrix is not orthonormal", TRUE)
      ELSE Valid

\* The helpers of orthonormalizeMatrix.
dot(a, b) == Add(Add(Mul(a[1], b[1]), Mul(a[2], b[2])), Mul(a[3], b[3]))
normalize(v) ==
  LET len == Sqrt(dot(v, v))
  IN  IF AboveEpsilon(len)
      THEN <<Div(v[1], len), Div(v[2], len), Div(v[3], len)>>
      ELSE <<One, Zero, Zero>>
sub(a, b, s) == <<Sub(a[1], Mul(b[1], s)), Sub(a[2], Mul(b[2], s)), Sub(a[3], Mul(b[3], s))>>
cross(a, b) ==
  <<Sub(Mul(a[2], b[3]), Mul(a[3], b[2])),
    Sub(Mul(a[3], b[1]), Mul(a[1], b[3])),
    Sub(Mul(a[1], b[2]), Mul(a[2], b[1]))>>

orthonormalizeMatrix(m) ==
  LET c0 == <<m[1][1], m[2][1], m[3][1]>>
      c1 == <<m[1][2], m[2][2], m[3][2]>>
      u0 == normalize(c0)
      u1 == normalize(sub(c1, u0, dot(c1, u0)))
      u2 == cross(u0, u1)
  IN  <<<<u0[1], u1[1], u2[1]>>,
        <<u0[2], u1[2], u2[2]>>,
        <<u0[3], u1[3], u2[3]>>>>

\* The fields read with `parseFloat(text) || 0`.
parsedQuaternion ==
  [x |-> orZero(quatFields.x), y |-> orZero(quatFields.y),
   z |-> orZero(quatFields.z), w |-> orZero(quatFields.w)]
parsedMatrix ==
  <<<<orZero(mFields[1][1]), orZero(mFields[1][2]), orZero(mFields[1][3])>>,
    <<orZero(mFields[2][1]), orZero(mFields[2][2]), orZero(mFields[2][3])>>,
    <<orZero(mFields[3][1]), orZero(mFields[3][2]), orZero(mFields[3][3])>>>>

\* The `validation` memo of RotationConverter.
validation ==
  CASE inputType = "quaternion" ->
         validateQuaternion(parsedQuaternion.x, parsedQuaternion.y,
                            parsedQuaternion.z, parsedQuaternion.w)
    [] inputType = "matrix" -> validateRotationMatrix(parsedMatrix)
    [] OTHER -> Valid

\* The switch of the `result` memo of RotationConverter: the quaternion of the
\* fields of the selected input type.
converterQuaternion ==
        CASE inputType = "euler" ->
               eulerToQuaternion(
                 [roll |-> IF angleUnit = "deg" THEN eulerFields.roll
                           ELSE radToDeg(eulerFields.roll),
                  pitch |-> IF angleUnit = "deg" THEN eulerFields.pitch
                            ELSE radToDeg(eulerFields.pitch),
                  yaw |-> IF angleUnit = "deg" THEN eulerFields.yaw
                          ELSE radToDeg(eulerFields.yaw)])
          [] inputType = "quaternion" ->
               normalizeQuaternion([x |-> orZero(quatFields.x), y |-> orZero(quatFields.y),
                                    z |-> orZero(quatFields.z), w |-> orOne(quatFields.w)])
          [] inputType = "axis-angle" ->
               axisAngleVectorToQuaternion(
                 axisFields.x, axisFields.y, orOne(axisFields.z),
                 IF angleUnit = "deg" THEN axisFields.angle
                 ELSE radToDeg(axisFields.angle))
          [] inputType = "matrix" -> matrixToQuaternion(parsedMatrix)

\* The `result` memo of RotationConverter.
converterResult ==
  LET quaternion == converterQuaternion
  IN  [quaternion |-> quaternion, euler |-> quaternionToEuler(quaternion),
       matrix |-> quaternionToMatrix(quaternion)]

\* The useState initial values ('0', '0', '0'; '0', '0', '0', '1'; ...), degrees shown.
InitConverter ==
  /\ inputType = "euler"
  /\ angleUnit = "deg"
  /\ eulerFields = [roll |-> 0, pitch |-> 0, yaw |-> 0]
  /\ quatFields = [x |-> Zero, y |-> Zero, z |-> Zero, w |-> One]
  /\ axisFields = [x |-> Zero, y |-> Zero, z |-> One, angle |-> 0]
  /\ mFields = <<<<One, Zero, Zero>>, <<Zero, One, Zero>>, <<Zero, Zero, One>>>>

setInputType ==
  \E t \in InputTypes :
    /\ inputType' = t
    /\ UNCHANGED <<angleUnit, eulerFields, quatFields, axisFields, mFields, swapVars, search, chainVars>>

setEulerRoll ==
  \E v \in EulerInputs :
    /\ eulerFields' = [eulerFields EXCEPT !.roll = v]
    /\ UNCHANGED <<inputType, angleUnit, quatFields, axisFields, mFields, swapVars, search, chainVars>>

setEulerPitch ==
  \E v \in EulerInputs :
    /\ eulerFields' = [eulerFields EXCEPT !.pitch = v]
    /\ UNCHANGED <<inputType, angleUnit, quatFields, axisFields, mFields, swapVars, search, chainVars>>

setEulerYaw ==
  \E v \in EulerInputs :
    /\ eulerFields' = [eulerFields EXCEPT !.yaw = v]
    /\ UNCHANGED <<inputType, angleUnit, quatFields, axisFields, mFields, swapVars, search, chainVars>>

\* setM00 .. setM22: the setter of the field in row i, column j.
setM ==
  \E i \in 1..3, j \in 1..3 :
    \E v \in MatrixInputsAt(i, j) :
      /\ mFields' = [mFields EXCEPT ![i][j] = v]
      /\ UNCHANGED <<inputType, angleUnit, eulerFields, quatFields, axisFields, swapVars, search, chainVars>>

setQuatX ==
  \E v \in QuatInputs :
    /\ quatFields' = [quatFields EXCEPT !.x = v]
    /\ UNCHANGED <<inputType, angleUnit, eulerFields, axisFields, mFields, swapVars, search, chainVars>>

setQuatY ==
  \E v \in QuatInputs :
    /\ quatFields' = [quatFields EXCEPT !.y = v]
    /\ UNCHANGED <<inputType, angleUnit, eulerFields, axisFields, mFields, swapVars, search, chainVars>>

setQuatZ ==
  \E v \in QuatInputs :
    /\ quatFields' = [quatFields EXCEPT !.z = v]
    /\ UNCHANGED <<inputType, angleUnit, eulerFields, axisFields, mFields, swapVars, search, chainVars>>

setQuatW ==
  \E v \in QuatInputs :
    /\ quatFields' = [quatFields EXCEPT !.w = v]
    /\ UNCHANGED <<inputType, angleUnit, eulerFields, axisFields, mFields, swapVars, search, chainVars>>

\* Math.sqrt(s) is a number of the model: s is not finite, negative, or has its
\* root in the field.
RootInField(s) == IF IsFinite(s) /\ Sign(s) >= 0 THEN Roots(s) # {} ELSE TRUE

\* The two lengths orthonormalizeMatrix divides by are numbers of the model.
orthonormalizeInField(m) ==
  LET c0 == <<m[1][1], m[2][1], m[3][1]>>
      c1 == <<m[1][2], m[2][2], m[3][2]>>
  IN  /\ RootInField(dot(c0, c0))
      /\ LET r == sub(c1, normalize(c0), dot(c1, normalize(c0)))
         IN  RootInField(dot(r, r))

\* The matrix has no infinite entry.
finiteMatrix(m) == \A i \in 1..3, j \in 1..3 : IsFinite(m[i][j])

\* The quaternion branch of handleNormalize on the fields f: the fields it sets.
normalizedQuaternionFields(f) ==
  LET normalized == normalizeQuaternion([x |-> orZero(f.x), y |-> orZero(f.y),
                                         z |-> orZero(f.z), w |-> orZero(f.w)])
  IN  [x |-> formatNumber(normalized.x), y |-> formatNumber(normalized.y),
       z |-> formatNumber(normalized.z), w |-> formatNumber(normalized.w)]

\* The matrix branch of handleNormalize on the fields f: the fields it sets.
normalizedMatrixFields(f) ==
  LET normalized == orthonormalizeMatrix(
                      <<<<orZero(f[1][1]), orZero(f[1][2]), orZero(f[1][3])>>,
                        <<orZero(f[2][1]), orZero(f[2][2]), orZero(f[2][3])>>,
                        <<orZero(f[3][1]), orZero(f[3][2]), orZero(f[3][3])>>>>)
  IN  <<<<formatNumber(normalized[1][1]), formatNumber(normalized[1][2]),
          formatNumber(normalized[1][3])>>,
        <<formatNumber(normalized[2][1]), formatNumber(normalized[2][2]),
          formatNumber(normalized[2][3])>>,
        <<formatNumber(normalized[3][1]), formatNumber(normalized[3][2]),
          formatNumber(normalized[3][3])>>>>

\* The Normalize button is rendered for the quaternion fields f
\* (!validation.valid && validation.canNormalize; canNormalize is true of no
\* valid result), and the magnitude is a number of the model.
quaternionRepairOffered(f) ==
  /\ validateQuaternion(orZero(f.x), orZero(f.y), orZero(f.z), orZero(f.w)).canNormalize
  /\ RootInField(lenSquared([x |-> orZero(f.x), y |-> orZero(f.y),
                             z |-> orZero(f.z), w |-> orZero(f.w)]))

\* The same for the matrix fields f of finite entries.
matrixRepairOffered(f) ==
  /\ validateRotationMatrix(f).canNormalize
  /\ finiteMatrix(f)
  /\ orthonormalizeInField(f)

\* The clicks on Normalize the model follows: the fields before the click and
\* the fields normalizedQuaternionFields and normalizedMatrixFields leave, as
\* text read back.
quaternionRepairs ==
  ([x |-> Zero, y |-> Zero, z |-> Zero, w |-> Two]
     :> [x |-> Zero, y |-> Zero, z |-> Zero, w |-> One])
  @@ ([x |-> One, y |-> Zero, z |-> Zero, w |-> One]
     :> [x |-> Rat(7071, 10000), y |-> Zero, z |-> Zero, w |-> Rat(7071, 10000)])
  @@ ([x |-> One, y |-> One, z |-> One, w |-> Zero]
     :> [x |-> Rat(5774, 10000), y |-> Rat(5774, 10000), z |-> Rat(5774, 10000), w |-> Zero])
  @@ ([x |-> One, y |-> One, z |-> Two, w |-> Zero]
     :> [x |-> Rat(4082, 10000), y |-> Rat(4082, 10000), z |-> Rat(8165, 10000), w |-> Zero])
  @@ ([x |-> Two, y |-> Two, z |-> Two, w |-> Two]
     :> [x |-> Rat(1, 2), y |-> Rat(1, 2), z |-> Rat(1, 2), w |-> Rat(1, 2)])
  @@ ([x |-> Infinity, y |-> Zero, z |-> Zero, w |-> One]
     :> [x |-> NaN, y |-> Zero, z |-> Zero, w |-> Zero])
matrixRepairs ==
  (<<<<One, One, Zero>>, <<Zero, One, Zero>>, <<Zero, Zero, One>>>>
     :> <<<<One, Zero, Zero>>, <<Zero, One, Zero>>, <<Zero, Zero, One>>>>)
  @@ (<<<<One, Whole(-1), Zero>>, <<Zero, One, Zero>>, <<Zero, Zero, One>>>>
     :> <<<<One, Zero, Zero>>, <<Zero, One, Zero>>, <<Zero, Zero, One>>>>)
  @@ (<<<<One, One, One>>, <<Zero, One, Zero>>, <<Zero, Zero, One>>>>
     :> <<<<One, Zero, Zero>>, <<Zero, One, Zero>>, <<Zero, Zero, One>>>>)

\* The click on the Normalize button.
handleNormalize ==
  /\ IF inputType = "quaternion"
     THEN /\ quatFields \in DOMAIN quaternionRepairs
          /\ quatFields' = quaternionRepairs[quatFields]
          /\ UNCHANGED mFields
     ELSE /\ inputType = "matrix"
          /\ mFields \in DOMAIN matrixRepairs
          /\ mFields' = matrixRepairs[mFields]
          /\ UNCHANGED quatFields
  /\ UNCHANGED <<inputType, angleUnit, eulerFields, axisFields, swapVars, search, chainVars>>

---------------------------------------------------------------------------
(* components/rotation/RotationStep.tsx and contexts/SettingsContext.tsx:  *)
(* the angle field of the first step.  Here the angle of a step is a       *)
(* number, as parseFloat reads it, and an angle in radians is a number of  *)
(* radians, Math.PI being the rational 355/113: the texts of 4 decimals of *)
(* the angles of the model are those the code shows.                       *)

PI == Rat(355, 113)

\* The texts typed into the angle field, as the numbers they parse to.
FieldInputs == {NaN, Zero, One, Rat(3, 2)}

\* The `chain` values the page is opened with to use the angle field.
AngleFieldParams ==
  { <<"x", ".", "9", "0">>,
    <<"y", ".", "0", ".", "1", "2", "3", "4", "5">>,
    <<"z", ".", "-", "4", "5", ".", "5">> }

\* useRotation's initial state from the URL, and useState(false), useState('').
InitAngleField ==
  /\ chainParam \in AngleFieldParams
  /\ LET urlSteps == getChain(chainParam)
     IN  /\ steps = [i \in 1..Len(urlSteps) |->
                       [id |-> i, axis |-> urlSteps[i].axis,
                        angleDeg |-> urlSteps[i].angleDeg]]
         /\ stepIdCounter = Len(urlSteps)
  /\ urlUpdateTimer = <<>>
  /\ chainMounted = TRUE
  /\ isEditing = FALSE
  /\ editValue = NaN

\* The displayValue memo for an angle in the unit shown; (angleDeg * Math.PI) / 180
\* is computed as angleDeg * (Math.PI / 180), the same number.
displayValueOf(angleDeg, unit) ==
  LET value == IF unit = "deg" THEN angleDeg ELSE Mul(angleDeg, Div(PI, Whole(180)))
  IN  formatNumber(value)

displayValue == displayValueOf(steps[1].angleDeg, angleUnit)

\* degValue of handleInputBlur for the parsed text; (parsed * 180) / Math.PI is
\* computed as parsed * (180 / Math.PI), the same number.
degValueOf(parsed, unit) ==
  IF unit = "deg" THEN parsed ELSE Mul(parsed, Div(Whole(180), PI))

\* setAngleUnit(unit), by a button of the tab bar: the field has no focus.
setAngleUnit ==
  \E unit \in {"deg", "rad"} :
    /\ ~isEditing
    /\ angleUnit' = unit
    /\ UNCHANGED <<inputType, eulerFields, quatFields, axisFields, mFields,
                   swapVars, search, chainVars>>

handleInputFocus ==
  /\ ~isEditing
  /\ isEditing' = TRUE
  /\ editValue' = displayValue
  /\ UNCHANGED <<steps, stepIdCounter, urlUpdateTimer, chainParam, chainMounted,
               swapVars, search, converterVars>>

handleInputChange ==
  \E v \in FieldInputs :
    /\ isEditing
    /\ editValue' = v
    /\ UNCHANGED <<isEditing, steps, stepIdCounter, urlUpdateTimer, chainParam,
                   chainMounted, swapVars, search, converterVars>>

\* onUpdate is updateStep: a new `steps` array, and the URL update scheduled.
handleInputBlur ==
  /\ isEditing
  /\ isEditing' = FALSE
  /\ LET parsed == editValue
     IN  IF ~IsNaN(parsed)
         THEN /\ steps' = updatedSteps(steps[1].id, steps[1].axis,
                                       degValueOf(parsed, angleUnit))
              /\ urlUpdateTimer' = scheduleUrlUpdate(steps')
         ELSE UNCHANGED <<steps, urlUpdateTimer>>
  /\ UNCHANGED <<editValue, stepIdCounter, chainParam, chainMounted, swapVars, search, converterVars>>

---------------------------------------------------------------------------
(* hooks/useUrlState.ts: the query string as a whole                       *)

\* decodeURIComponent on the escapes that occur in the URLs entered: %26 is
\* "&", %3D is "=", %5F is "_"; every other character stands for itself.
RECURSIVE decodeURIComponent(_)
decodeURIComponent(text) ==
  IF text = <<>> THEN <<>>
  ELSE IF Len(text) >= 3 /\ SubSeq(text, 1, 3) = <<"%", "2", "6">>
       THEN <<"&">> \o decodeURIComponent(SubSeq(text, 4, Len(text)))
  ELSE IF Len(text) >= 3 /\ SubSeq(text, 1, 3) = <<"%", "3", "D">>
       THEN <<"=">> \o decodeURIComponent(SubSeq(text, 4, Len(text)))
  ELSE IF Len(text) >= 3 /\ SubSeq(text, 1, 3) = <<"%", "5", "F">>
       THEN <<"_">> \o decodeURIComponent(SubSeq(text, 4, Len(text)))
  ELSE <<Head(text)>> \o decodeURIComponent(Tail(text))

\* A Record<string, string> is the sequence of its [key, value] entries in the
\* order of insertion, which is the order of Object.entries.
\* params[key] = value: an existing key keeps its place.
assignParam(params, key, value) ==
  IF \E i \in 1..Len(params) : params[i].key = key
  THEN [i \in 1..Len(params) |->
          IF params[i].key = key THEN [key |-> key, value |-> value] ELSE params[i]]
  ELSE Append(params, [key |-> key, value |-> value])

\* params[key], or <<"undefined">> if there is no such key.
undefined == <<"undefined">>
paramValue(params, key) ==
  IF \E i \in 1..Len(params) : params[i].key = key
  THEN params[CHOOSE i \in 1..Len(params) : params[i].key = key].value
  ELSE undefined

\* The loop of parseQueryString over query.split('&'):
\* const [key, value] = pair.split('=').
RECURSIVE parsePairs(_, _)
parsePairs(pairs, params) ==
  IF pairs = <<>> THEN params
  ELSE LET kv == split(Head(pairs), "=")
           key == kv[1]
           value == IF Len(kv) >= 2 THEN kv[2] ELSE <<>>
       IN  parsePairs(Tail(pairs),
                      IF key # <<>>
                      THEN assignParam(params, decodeURIComponent(key),
                                       IF value # <<>> THEN decodeURIComponent(value)
                                       ELSE <<>>)
                      ELSE params)

parseQueryString(text) ==
  LET query == IF text # <<>> /\ Head(text) = "?" THEN Tail(text) ELSE text
  IN  IF query = <<>> THEN <<>> ELSE parsePairs(split(query, "&"), <<>>)

\* `${key}=${value}` for each entry, joined with '&', without encoding.
buildQueryString(params) ==
  join([i \in 1..Len(params) |-> params[i].key \o <<"=">> \o params[i].value], "&")

\* The search part of the URL that updateUrl(params) puts in place.
updateUrl(params) ==
  LET queryString == buildQueryString(params)
  IN  IF queryString # <<>> THEN <<"?">> \o queryString ELSE <<>>

getParams == parseQueryString(search)

\* The body the five setters share:
\* const params = getParams(); params.<key> = value; updateUrl(params).
searchAfterSet(key, value) == updateUrl(assignParam(getParams, key, value))

TabKey == <<"t", "a", "b">>
ChainKey == <<"c", "h", "a", "i", "n">>
SwapKey == <<"s", "w", "a", "p">>
UnitKey == <<"u", "n", "i", "t">>
FormatKey == <<"f", "o", "r", "m", "a", "t">>
UrlKeys == {TabKey, ChainKey, SwapKey, UnitKey, FormatKey}

\* The ids of the tabs (App.tsx).
TabIds ==
  { <<"r", "o", "t", "a", "t", "i", "o", "n", "-", "c", "h", "a", "i", "n">>,
    <<"a", "x", "i", "s", "-", "s", "w", "a", "p">>,
    <<"c", "o", "n", "v", "e", "r", "s", "i", "o", "n">> }

\* The chains and the mappings the model writes to the URL.
UrlChains ==
  { <<[id |-> 1, axis |-> "x", angleDeg |-> 90]>>,
    <<[id |-> 1, axis |-> "y", angleDeg |-> -45], [id |-> 2, axis |-> "z", angleDeg |-> 0]>> }
UrlMappings == {[x |-> "y", y |-> "-x", z |-> "z"], [x |-> "x", y |-> "y", z |-> "z"]}

UnitTexts == {<<"d", "e", "g">>, <<"r", "a", "d">>}
FormatTexts == {<<"t", "u", "p", "l", "e">>, <<"l", "i", "s", "t">>, <<"s", "p", "a", "c", "e">>}

\* The values each setter writes under its key.
valuesWritten(key) ==
  IF key = TabKey THEN TabIds
  ELSE IF key = ChainKey THEN {setChain(chain) : chain \in UrlChains}
  ELSE IF key = SwapKey THEN {setSwap(m) : m \in UrlMappings}
  ELSE IF key = UnitKey THEN UnitTexts
  ELSE FormatTexts

\* The URLs the page is opened with: no query, keys written by the setters, and
\* a chain value that carries the escapes of "_" and of "&" and "=".
Searches ==
  { <<>>,
    <<"?", "t", "a", "b", "=", "a", "x", "i", "s", "-", "s", "w", "a", "p",
      "&", "u", "n", "i", "t", "=", "r", "a", "d">>,
    <<"?", "c", "h", "a", "i", "n", "=", "x", ".", "9", "0", "%", "5", "F", "y", ".", "3", "0">>,
    <<"?", "c", "h", "a", "i", "n", "=", "x", ".", "9", "0",
      "%", "2", "6", "t", "a", "b", "%", "3", "D", "a", "x", "i", "s", "-", "s", "w", "a", "p">> }

setTab ==
  \E tabId \in valuesWritten(TabKey) :
    /\ search' = searchAfterSet(TabKey, tabId)
    /\ UNCHANGED <<swapVars, chainVars, converterVars>>

setChainParam ==
  \E text \in valuesWritten(ChainKey) :
    /\ search' = searchAfterSet(ChainKey, text)
    /\ UNCHANGED <<swapVars, chainVars, converterVars>>

setSwapParam ==
  \E text \in valuesWritten(SwapKey) :
    /\ search' = searchAfterSet(SwapKey, text)
    /\ UNCHANGED <<swapVars, chainVars, converterVars>>

setUnit ==
  \E unit \in valuesWritten(UnitKey) :
    /\ search' = searchAfterSet(UnitKey, unit)
    /\ UNCHANGED <<swapVars, chainVars, converterVars>>

setFormat ==
  \E format \in valuesWritten(FormatKey) :
    /\ search' = searchAfterSet(FormatKey, format)
    /\ UNCHANGED <<swapVars, chainVars, converterVars>>

---------------------------------------------------------------------------
(* Specifications.  TabContainer renders the active tab alone, so one       *)
(* calculator is mounted at a time; each specification is one tab in use.   *)

\* The axis-swap tab, opened with any `swap` value.
InitSwapTab == InitAxisSwap(SwapParams) /\ InitChain({<<>>}) /\ InitConverter /\ search = <<>>
NextSwapTab == rotateX \/ rotateY \/ rotateZ \/ resetSwap
SpecAxisSwap == InitSwapTab /\ [][NextSwapTab]_vars

\* The rotation-chain tab.
InitChainTab == InitAxisSwap({<<>>}) /\ InitChain({<<>>}) /\ InitConverter /\ search = <<>>
NextChainTab == addStep \/ removeStep \/ updateStep \/ resetChain
SpecChain == InitChainTab /\ [][NextChainTab]_vars

\* The chain tab opened with a `chain` value, and the debounced writes of the URL.
InitChainUrl == InitAxisSwap({<<>>}) /\ InitChain(ChainParams) /\ InitConverter /\ search = <<>>
NextChainUrl == addStep \/ removeStep \/ updateStep \/ resetChain \/ urlUpdateTimerFires
SpecChainUrl == InitChainUrl /\ [][NextChainUrl]_vars

\* The chain tab left and entered again, the timer firing when it is due.
NextChainTabs ==
  \/ addStep \/ removeStep \/ updateStep \/ resetChain \/ urlUpdateTimerFires
  \/ leaveChainTab \/ enterChainTab
SpecChainTabs == InitChainTab /\ [][NextChainTabs]_vars /\ WF_vars(urlUpdateTimerFires)

\* The angle field of the first step of the chain tab.
InitAngleFieldTab == InitAxisSwap({<<>>}) /\ InitAngleField /\ InitConverter /\ search = <<>>
NextAngleField == setAngleUnit \/ handleInputFocus \/ handleInputChange \/ handleInputBlur
SpecAngleField == InitAngleFieldTab /\ [][NextAngleField]_vars

\* The axis-swap tab opened without a `swap` key, so from IDENTITY_MAPPING, with
\* the settings of the header (unit and format), which every tab shows.
NextSwapFromIdentity == rotateX \/ rotateY \/ rotateZ \/ resetSwap \/ setUnit \/ setFormat
SpecSwapFromIdentity == InitChainTab /\ [][NextSwapFromIdentity]_vars

\* The URL setters, from each URL the page is opened with.
InitUrl == InitAxisSwap({<<>>}) /\ InitChain({<<>>}) /\ InitConverter /\ search \in Searches
NextUrl == setTab \/ setChainParam \/ setSwapParam \/ setUnit \/ setFormat
SpecUrl == InitUrl /\ [][NextUrl]_vars

\* The conversion tab, Euler-angle fields edited.
NextEuler == setInputType \/ setEulerRoll \/ setEulerPitch \/ setEulerYaw
SpecEuler == InitChainTab /\ [][NextEuler]_vars

\* The conversion tab, matrix fields edited.
NextMatrix == setInputType \/ setM \/ handleNormalize
SpecMatrix == InitChainTab /\ [][NextMatrix]_vars

\* The conversion tab, quaternion fields edited.
NextQuaternion ==
  setInputType \/ setQuatX \/ setQuatY \/ setQuatZ \/ setQuatW \/ handleNormalize
SpecQuaternion == InitChainTab /\ [][NextQuaternion]_vars

---------------------------------------------------------------------------
(* Properties.  The definitions below state what is claimed of the program  *)
(* in terms that do not go through the code under examination: labels are   *)
(* read as integer vectors, rotations as 3x3 matrices.                      *)

\* A signed-axis label as an integer vector.
LabelVector(a) ==
  CASE a = "x" -> <<1, 0, 0>>
    [] a = "-x" -> <<-1, 0, 0>>
    [] a = "y" -> <<0, 1, 0>>
    [] a = "-y" -> <<0, -1, 0>>
    [] a = "z" -> <<0, 0, 1>>
    [] a = "-z" -> <<0, 0, -1>>

Det3(a, b, c) ==
  a[1] * (b[2] * c[3] - b[3] * c[2])
  - b[1] * (a[2] * c[3] - a[3] * c[2])
  + c[1] * (a[2] * b[3] - a[3] * b[2])

\* The images of x, y, z are the columns of a rotation matrix of determinant +1:
\* three different base axes, right-handed.
IsProperRotationMapping(m) ==
  /\ Cardinality({baseAxis(m.x), baseAxis(m.y), baseAxis(m.z)}) = 3
  /\ Det3(LabelVector(m.x), LabelVector(m.y), LabelVector(m.z)) = 1

\* A vector turned a quarter turn about a coordinate axis, by the right-hand
\* rule when positive.
QuarterTurn(axis, positive, v) ==
  LET r == CASE axis = "x" -> <<v[1], -v[3], v[2]>>
             [] axis = "y" -> <<v[3], v[2], -v[1]>>
             [] axis = "z" -> <<-v[2], v[1], v[3]>>
      l == CASE axis = "x" -> <<v[1], v[3], -v[2]>>
             [] axis = "y" -> <<-v[3], v[2], v[1]>>
             [] axis = "z" -> <<v[2], -v[1], v[3]>>
  IN  IF positive THEN r ELSE l

RECURSIVE ApplyTimes(_, _, _, _)
ApplyTimes(m, axis, positive, n) ==
  IF n = 0 THEN m ELSE ApplyTimes(applyRotation(m, axis, positive), axis, positive, n - 1)

\* C1: in every reachable state, mapping is a proper rotation: x, y, z go to
\* three different base axes and the determinant is +1.
C1_MappingIsProperRotation == IsProperRotationMapping(mapping)

\* C8: from any mapping, the same quarter turn (any axis, either direction)
\* made four times gives the mapping back exactly.
C8_FourQuarterTurnsReturn ==
  \A axis \in Axes, positive \in BOOLEAN :
    ApplyTimes(mapping, axis, positive, 4) = mapping

\* A turned mapping that one, two and three further turns about x all change.
C8_Witness ==
  /\ mapping = [x |-> "y", y |-> "z", z |-> "x"]
  /\ swapParam = setSwap(mapping)
  /\ ~mappingIsConst
  /\ \A n \in 1..3 : ApplyTimes(mapping, "x", TRUE, n) # mapping

\* C9: the label table is the quarter turn of the signed unit vector by the
\* right-hand rule (+X: y->z, z->-y, -y->-z, -z->y, x fixed), and the negative
\* direction undoes the positive one.
C9_TableIsRightHandQuarterTurn ==
  /\ \A axis \in Axes, positive \in BOOLEAN, a \in VALID_SIGNED_AXES :
       /\ LabelVector(transform(axis, positive, a)) = QuarterTurn(axis, positive, LabelVector(a))
       /\ transform(axis, ~positive, transform(axis, positive, a)) = a
  /\ \A axis \in Axes, positive \in BOOLEAN :
       LET turned == applyRotation(mapping, axis, positive)
       IN  /\ \A k \in {"x", "y", "z"} :
                LabelVector(turned[k]) = QuarterTurn(axis, positive, LabelVector(mapping[k]))
           /\ applyRotation(turned, axis, ~positive) = mapping
  /\ transform("x", TRUE, "y") = "z"
  /\ transform("x", TRUE, "z") = "-y"
  /\ transform("x", TRUE, "-y") = "-z"
  /\ transform("x", TRUE, "-z") = "y"
  /\ transform("x", TRUE, "x") = "x"
  /\ transform("x", TRUE, "-x") = "-x"

\* The identity turned once about +X.
C9_Witness ==
  /\ mapping = applyRotation(IDENTITY_MAPPING, "x", TRUE)
  /\ mapping = [x |-> "x", y |-> "z", z |-> "-y"]
  /\ swapParam = <<"x", ".", "z", ".", "-", "y">>
  /\ ~mappingIsConst

\* The matrix whose columns are the images of x, y, z.
ColumnMatrix(m) ==
  LET xv == LabelVector(m.x)
      yv == LabelVector(m.y)
      zv == LabelVector(m.z)
  IN  [i \in 1..3 |-> <<Whole(xv[i]), Whole(yv[i]), Whole(zv[i])>>]

NegQuaternion(q) == [w |-> Neg(q.w), x |-> Neg(q.x), y |-> Neg(q.y), z |-> Neg(q.z)]

\* q1 and q2 are the same rotation: equal, or one the negative of the other.
SameRotation(q1, q2) == q1 = q2 \/ q1 = NegQuaternion(q2)

\* C10: for every reachable mapping, result.matrix has the images of x, y, z
\* as its columns, and mappingToQuaternion agrees with matrixToQuaternion of
\* that matrix.
\* Stated of the mappings whose quaternion has its length in the field the
\* numbers are computed in; x.x.x is one of them.
LengthInField(m) == Roots(lenSquared(mappingShepperd(m))) # {}

C10_ResultMatrixColumnsAreImages ==
  LengthInField(mapping) =>
    /\ quaternionToMatrix(mappingToQuaternion(mapping)) = ColumnMatrix(mapping)
    /\ SameRotation(mappingToQuaternion(mapping), matrixToQuaternion(ColumnMatrix(mapping)))

\* The same on the mappings that are proper rotations.
C10_HoldsOnProperRotations ==
  IsProperRotationMapping(mapping) =>
    /\ axisSwapResult.matrix = ColumnMatrix(mapping)
    /\ SameRotation(axisSwapResult.quaternion, matrixToQuaternion(ColumnMatrix(mapping)))

Identity3 == <<<<One, Zero, Zero>>, <<Zero, One, Zero>>, <<Zero, Zero, One>>>>

MatMul(A, B) ==
  [i \in 1..3 |-> [j \in 1..3 |->
     Add(Add(Mul(A[i][1], B[1][j]), Mul(A[i][2], B[2][j])), Mul(A[i][3], B[3][j]))]]

Transpose(A) == [i \in 1..3 |-> [j \in 1..3 |-> A[j][i]]]

\* The rotation by angleDeg about a fixed coordinate axis, right-handed.
ElementalMatrix(axis, angleDeg) ==
  LET c == Cos(DEG_TO_RAD(angleDeg))
      s == Sin(DEG_TO_RAD(angleDeg))
  IN  CASE axis = "x" -> <<<<One, Zero, Zero>>, <<Zero, c, Neg(s)>>, <<Zero, s, c>>>>
        [] axis = "y" -> <<<<c, Zero, s>>, <<Zero, One, Zero>>, <<Neg(s), Zero, c>>>>
        [] axis = "z" -> <<<<c, Neg(s), Zero>>, <<s, c, Zero>>, <<Zero, Zero, One>>>>

Front(chain) == SubSeq(chain, 1, Len(chain) - 1)
Last(chain) == chain[Len(chain)]

\* R(s_n) * ... * R(s_1): each later step multiplied on the left.
RECURSIVE WorldFrameMatrix(_)
WorldFrameMatrix(chain) ==
  IF chain = <<>> THEN Identity3
  ELSE MatMul(ElementalMatrix(Last(chain).axis, Last(chain).angleDeg),
              WorldFrameMatrix(Front(chain)))

\* R(s_1) * ... * R(s_n): each later step multiplied on the right.
RECURSIVE BodyFrameMatrix(_)
BodyFrameMatrix(chain) ==
  IF chain = <<>> THEN Identity3
  ELSE MatMul(BodyFrameMatrix(Front(chain)),
              ElementalMatrix(Last(chain).axis, Last(chain).angleDeg))

\* accum = multiply(elemental, accum), written from the last step down.
RECURSIVE WorldFrameQuaternion(_)
WorldFrameQuaternion(chain) ==
  IF chain = <<>> THEN identityQuaternion
  ELSE multiplyQuaternions(axisAngleToQuaternion(Last(chain).axis, Last(chain).angleDeg),
                           WorldFrameQuaternion(Front(chain)))

\* C2: the chain's result is the world-frame product: every step multiplies the
\* accumulated rotation on the left, so steps s1..sn give R(sn) * ... * R(s1),
\* and the empty chain gives the identity.
C2_ChainIsWorldFrameProduct ==
  /\ chainQuaternion(steps) = WorldFrameQuaternion(steps)
  /\ chainMatrix(steps) = WorldFrameMatrix(steps)
  /\ chainQuaternion(<<>>) = identityQuaternion
  /\ chainMatrix(<<>>) = Identity3

\* Two steps about different axes, for which the two orders differ.
C2_Witness ==
  /\ Len(steps) = 2
  /\ steps[1].axis = "x" /\ steps[1].angleDeg = 90
  /\ steps[2].axis = "y" /\ steps[2].angleDeg = 30
  /\ WorldFrameMatrix(steps) # BodyFrameMatrix(steps)
  /\ urlUpdateTimer = <<steps>>

step(axis, angleDeg) == [axis |-> axis, angleDeg |-> angleDeg]
stepsOf(chain) == [i \in 1..Len(chain) |-> step(chain[i].axis, chain[i].angleDeg)]

x90 == axisAngleToQuaternion("x", 90)
y90 == axisAngleToQuaternion("y", 90)

\* C3: [x 90, y 90] and [y 90, x 90] give different results; the first is
\* multiply(y90, x90) = (x, y, z, w) = (1/2, 1/2, -1/2, 1/2), the second is
\* multiply(x90, y90) = (1/2, 1/2, 1/2, 1/2).
C3_OrderOfStepsMatters ==
  stepsOf(steps) = <<step("x", 90), step("y", 90)>> =>
    LET first == chainQuaternion(steps)
        second == chainQuaternion(<<steps[2], steps[1]>>)
    IN  /\ first = multiplyQuaternions(y90, x90)
        /\ first = [x |-> Rat(1, 2), y |-> Rat(1, 2), z |-> Rat(-1, 2), w |-> Rat(1, 2)]
        /\ second = multiplyQuaternions(x90, y90)
        /\ second = [x |-> Rat(1, 2), y |-> Rat(1, 2), z |-> Rat(1, 2), w |-> Rat(1, 2)]
        /\ ~SameRotation(first, second)
        /\ chainMatrix(steps) # chainMatrix(<<steps[2], steps[1]>>)

\* The chain [x 90, y 90] entered on the page.
C3_Witness ==
  /\ stepsOf(steps) = <<step("x", 90), step("y", 90)>>
  /\ urlUpdateTimer = <<steps>>
  /\ stepIdCounter >= 2

\* The three elemental quaternions of an Euler triple.
qRoll(e) == axisAngleToQuaternion("x", e.roll)
qPitch(e) == axisAngleToQuaternion("y", e.pitch)
qYaw(e) == axisAngleToQuaternion("z", e.yaw)

\* Roll about X, then pitch about the turned Y, then yaw about the turned Z.
IntrinsicXYZ(e) == multiplyQuaternions(multiplyQuaternions(qRoll(e), qPitch(e)), qYaw(e))

\* Roll about X, then pitch about the fixed Y, then yaw about the fixed Z.
ExtrinsicXYZ(e) == multiplyQuaternions(qYaw(e), multiplyQuaternions(qPitch(e), qRoll(e)))

\* C4 as stated: eulerToQuaternion is the body-frame composition qx*qy*qz.
C4_EulerIsIntrinsicXYZ ==
  inputType = "euler" =>
    SameRotation(converterQuaternion, IntrinsicXYZ(eulerFields))

\* C4: eulerToQuaternion is qz*qy*qx: roll about X first, then pitch about
\* the fixed world Y, then yaw about the fixed world Z (equally, yaw about Z,
\* then pitch about the turned Y, then roll about the turned X); its matrix is
\* Rz(yaw) * Ry(pitch) * Rx(roll).
C4_EulerIsExtrinsicXYZ ==
  inputType = "euler" =>
    /\ converterQuaternion = ExtrinsicXYZ(eulerFields)
    /\ quaternionToMatrix(converterQuaternion) =
         MatMul(ElementalMatrix("z", eulerFields.yaw),
                MatMul(ElementalMatrix("y", eulerFields.pitch),
                       ElementalMatrix("x", eulerFields.roll)))

\* Roll and pitch of a quarter turn each: the two orders are different rotations.
C4_Witness ==
  /\ inputType = "euler"
  /\ eulerFields = [roll |-> 90, pitch |-> 90, yaw |-> 0]
  /\ ~SameRotation(IntrinsicXYZ(eulerFields), ExtrinsicXYZ(eulerFields))
  /\ converterResult.quaternion = multiplyQuaternions(y90, x90)

PitchInOpenRange(e) == -90 < e.pitch /\ e.pitch < 90

SameAngle(a, b) == (a - b) % 360 = 0

\* C5 as stated: with pitch strictly between -90 and 90, and roll and yaw
\* unrestricted, the round trip returns the triple itself.
C5_RoundTripReturnsInput ==
  (inputType = "euler" /\ PitchInOpenRange(eulerFields)) =>
    converterResult.euler = eulerFields

\* C5: with pitch strictly between -90 and 90, the round trip returns pitch
\* itself and roll and yaw brought into [-180, 180] by a multiple of 360; it
\* returns the triple itself when roll and yaw are strictly between -180 and 180.
C5_RoundTripModulo360 ==
  (inputType = "euler" /\ PitchInOpenRange(eulerFields)) =>
    LET out == converterResult.euler
    IN  /\ out.pitch = eulerFields.pitch
        /\ SameAngle(out.roll, eulerFields.roll) /\ -180 <= out.roll /\ out.roll <= 180
        /\ SameAngle(out.yaw, eulerFields.yaw) /\ -180 <= out.yaw /\ out.yaw <= 180
        /\ (/\ -180 < eulerFields.roll /\ eulerFields.roll < 180
            /\ -180 < eulerFields.yaw /\ eulerFields.yaw < 180) => out = eulerFields

\* Roll beyond a half turn comes back as the same angle less 360.
C5_Witness ==
  /\ inputType = "euler"
  /\ eulerFields = [roll |-> 210, pitch |-> 60, yaw |-> -120]
  /\ converterResult.euler = [roll |-> -150, pitch |-> 60, yaw |-> -120]

\* C6: at pitch exactly +90 or -90 the round trip keeps roll - yaw, or
\* roll + yaw, of the input (either is accepted here, up to whole turns).
C6_GimbalLockKeepsCombination ==
  (inputType = "euler" /\ eulerFields.pitch \in {-90, 90}) =>
    LET out == converterResult.euler
    IN  \/ SameAngle(out.roll - out.yaw, eulerFields.roll - eulerFields.yaw)
        \/ SameAngle(out.roll + out.yaw, eulerFields.roll + eulerFields.yaw)

Det3Q(A) ==
  Add(Sub(Mul(A[1][1], Sub(Mul(A[2][2], A[3][3]), Mul(A[2][3], A[3][2]))),
          Mul(A[1][2], Sub(Mul(A[2][1], A[3][3]), Mul(A[2][3], A[3][1])))),
      Mul(A[1][3], Sub(Mul(A[2][1], A[3][2]), Mul(A[2][2], A[3][1]))))

\* Orthonormal with determinant +1.
IsProperRotationMatrix(A) == MatMul(A, Transpose(A)) = Identity3 /\ Det3Q(A) = One

\* C7: for a proper rotation matrix typed into the nine fields (the 24
\* signed permutation matrices of determinant +1), the matrix of the quaternion
\* made from it is the same matrix, entry by entry.
C7_MatrixRoundTrip ==
  (inputType = "matrix" /\ IsProperRotationMatrix(mFields)) =>
    /\ quaternionToMatrix(matrixToQuaternion(mFields)) = mFields
    /\ converterResult.matrix = mFields

\* A third of a turn about (1,1,1): trace 0, the last branch, w not 0.
C7_Witness ==
  /\ inputType = "matrix"
  /\ mFields = <<<<Zero, Zero, One>>, <<One, Zero, Zero>>, <<Zero, One, Zero>>>>
  /\ IsProperRotationMatrix(mFields)
  /\ mFields # Transpose(mFields)
  /\ converterResult.quaternion.w # Zero

\* C11: the validation of the quaternion fields has three outcomes, decided by
\* the magnitude alone: below 1e-10 the zero-magnitude error without repair;
\* otherwise, more than 0.01 away from 1, the not-normalized error with repair;
\* otherwise valid.  (0,0,0,2) is not normalized, (0,0,0,0) has zero magnitude.
\* The magnitude is compared where it is a number of the model.
QuaternionOutcome(mag) ==
  IF Lt(mag, One) /\ BelowEpsilon(mag) THEN Invalid("Quaternion magnitude is zero", FALSE)
  ELSE IF Gt(Abs(Sub(mag, One)), Rat(1, 100)) THEN Invalid("Quaternion is not normalized", TRUE)
  ELSE Valid
C11_QuaternionValidationOutcomes ==
  inputType = "quaternion" =>
    LET q == parsedQuaternion
        s == lenSquared(q)
    IN  /\ validation \in {Valid, Invalid("Quaternion magnitude is zero", FALSE),
                           Invalid("Quaternion is not normalized", TRUE)}
        /\ RootInField(s) => validation = QuaternionOutcome(Sqrt(s))
        /\ q = [x |-> Zero, y |-> Zero, z |-> Zero, w |-> Two]
             => validation = Invalid("Quaternion is not normalized", TRUE)
        /\ q = [x |-> Zero, y |-> Zero, z |-> Zero, w |-> Zero]
             => validation = Invalid("Quaternion magnitude is zero", FALSE)
C11_Witness ==
  /\ inputType = "quaternion"
  /\ parsedQuaternion = [x |-> Zero, y |-> Zero, z |-> Zero, w |-> Zero]
  /\ validation = Invalid("Quaternion magnitude is zero", FALSE)

\* C12: a matrix the validation reports valid has a positive determinant and is
\* orthonormal within 0.01: every entry of m * m^T is within 0.01 of the
\* identity's.
C12_ValidMatrixIsOrthonormal ==
  (inputType = "matrix" /\ validation.valid) =>
    /\ Gt(determinant(parsedMatrix), Zero)
    /\ \A i \in 1..3, j \in 1..3 :
         Le(Abs(Sub(RRT(parsedMatrix, i, j), IF i = j THEN One ELSE Zero)), Rat(1, 100))

\* C13: orthonormalizeMatrix returns a right-handed orthonormal matrix
\* (orthonormal rows and columns, determinant +1) for every input, among them
\* a zero first column and a second column parallel to the first.  The inputs
\* are the finite matrices of the fields whose two lengths are numbers of the
\* model.
C13_OrthonormalizeGivesRotation ==
  (inputType = "matrix" /\ finiteMatrix(parsedMatrix) /\ orthonormalizeInField(parsedMatrix)) =>
    IsProperRotationMatrix(orthonormalizeMatrix(parsedMatrix))

\* Every click the model follows is a click on a rendered button and leaves
\* what the code of handleNormalize computes.
RepairsAreAsComputed ==
  /\ \A f \in DOMAIN quaternionRepairs :
       quaternionRepairOffered(f) /\ quaternionRepairs[f] = normalizedQuaternionFields(f)
  /\ \A f \in DOMAIN matrixRepairs :
       matrixRepairOffered(f) /\ matrixRepairs[f] = normalizedMatrixFields(f)

\* C14: whenever the validation of the quaternion fields offers the repair, the
\* fields the click on Normalize leaves validate as valid.
C14_RepairLeavesValidInput ==
  (inputType = "quaternion" /\ quaternionRepairOffered(quatFields)) =>
    LET f == normalizedQuaternionFields(quatFields)
    IN  validateQuaternion(orZero(f.x), orZero(f.y), orZero(f.z), orZero(f.w)).valid

\* The decoded steps have the axes and the angles of the chain, in its order.
sameAxesAndAngles(decoded, chain) ==
  /\ Len(decoded) = Len(chain)
  /\ \A i \in 1..Len(chain) :
       /\ decoded[i].axis = chain[i].axis
       /\ decoded[i].angleDeg = Whole(chain[i].angleDeg)

\* C15: getChain of the text setChain writes for the steps of the chain gives
\* steps with the same axes and the same angles in the same order.
C15_ChainUrlRoundTrip == sameAxesAndAngles(getChain(setChain(steps)), steps)

\* The timer has written a chain of two steps, the second with a negative angle.
C15_Witness ==
  /\ urlUpdateTimer = <<>>
  /\ Len(steps) = 2
  /\ steps[2].angleDeg = -90
  /\ chainParam = setChain(steps)

\* The text is a decimal number and nothing else.
IsNumberText(text) ==
  LET first == IF text # <<>> /\ text[1] = "-" THEN 2 ELSE 1
      whole == digitRun(text, first)
      point == first + whole
  IN  /\ whole > 0
      /\ \/ point = Len(text) + 1
         \/ /\ text[point] = "."
            /\ digitRun(text, point + 1) > 0
            /\ point + digitRun(text, point + 1) = Len(text)

\* The segment is a valid axis letter, a dot and a number.
WellFormedSegment(pair) ==
  /\ Len(pair) >= 3
  /\ isValidAxis(pair[1])
  /\ pair[2] = "."
  /\ IsNumberText(SubSeq(pair, 3, Len(pair)))

\* The steps of the well-formed segments from index i on, in their order.
RECURSIVE WellFormedSteps(_, _)
WellFormedSteps(pairs, i) ==
  IF i > Len(pairs) THEN <<>>
  ELSE IF WellFormedSegment(pairs[i])
  THEN <<[id |-> i - 1, axis |-> pairs[i][1],
          angleDeg |-> parseFloat(SubSeq(pairs[i], 3, Len(pairs[i])))]>>
         \o WellFormedSteps(pairs, i + 1)
  ELSE WellFormedSteps(pairs, i + 1)

\* C16: getChain of the `chain` value gives the steps of its well-formed
\* segments in order and no step for a malformed segment.
C16_MalformedSegmentsAreSkipped ==
  chainParam # <<>> => getChain(chainParam) = WellFormedSteps(split(chainParam, "_"), 1)

\* The three parts of a text are valid labels.
ThreeValidLabels(text) ==
  LET parts == split(text, ".")
  IN  /\ Len(parts) = 3
      /\ \A i \in 1..3 : \E label \in VALID_SIGNED_AXES : parts[i] = labelText(label)

\* C17: getSwap of the text setSwap writes for the mapping is the mapping, the
\* first label being the image of x, the second of y, the third of z; and the
\* `swap` value decodes to no mapping unless it is three valid labels.
C17_SwapUrlRoundTrip ==
  /\ getSwap(setSwap(mapping)) = mapping
  /\ split(setSwap(mapping), ".") = <<labelText(mapping.x), labelText(mapping.y),
                                      labelText(mapping.z)>>
  /\ ~ThreeValidLabels(swapParam) => getSwap(swapParam) = NoMapping
  /\ ThreeValidLabels(swapParam) => getSwap(swapParam) # NoMapping

\* A mapping with negative images has been written to the URL by a rotation.
C17_Witness ==
  /\ ~mappingIsConst
  /\ mapping = [x |-> "-y", y |-> "z", z |-> "-x"]
  /\ swapParam = <<"-", "y", ".", "z", ".", "-", "x">>

\* The quaternion the `result` memo reads from the quaternion fields.
resultInput ==
  [x |-> orZero(quatFields.x), y |-> orZero(quatFields.y),
   z |-> orZero(quatFields.z), w |-> orOne(quatFields.w)]

FiniteQuaternion(q) == IsFinite(q.x) /\ IsFinite(q.y) /\ IsFinite(q.z) /\ IsFinite(q.w)

\* C18: no non-finite number flows into the result: on the quaternion tab every
\* component of the quaternion of the result is finite.
C18_NonFiniteNeverInResult ==
  (inputType = "quaternion" /\ RootInField(lenSquared(resultInput))) =>
    FiniteQuaternion(converterQuaternion)

\* normalizeQuaternion(q) is the identity if the magnitude of q is below 1e-10
\* and else q divided by its magnitude, of magnitude 1; normalizing again changes
\* nothing.
UnitOrIdentity(q) ==
  LET mag == Sqrt(lenSquared(q))
      normalized == normalizeQuaternion(q)
  IN  /\ IF BelowEpsilon(mag) THEN normalized = identityQuaternion
         ELSE /\ normalized = [x |-> Div(q.x, mag), y |-> Div(q.y, mag),
                               z |-> Div(q.z, mag), w |-> Div(q.w, mag)]
              /\ lenSquared(normalized) = One
      /\ normalizeQuaternion(normalized) = normalized

\* C19: normalizeQuaternion of the quaternion read from the fields is a unit
\* quaternion or, for a magnitude below 1e-10, the identity, and is idempotent.
C19_NormalizeGivesUnitOrIdentity ==
  (inputType = "quaternion" /\ RootInField(lenSquared(resultInput))) =>
    UnitOrIdentity(resultInput)

\* C20: focusing the angle field and blurring it without an edit, in either
\* unit, leaves the angle of the step as it is.
C20_FocusBlurKeepsAngle ==
  \A unit \in {"deg", "rad"} :
    degValueOf(displayValueOf(steps[1].angleDeg, unit), unit) = steps[1].angleDeg

\* C21: on the quaternion tab an input the validation reports valid is the
\* rotation displayed: the quaternion of the result is the normalization of the
\* quaternion the validation classified.
C21_ResultIsOfValidatedInput ==
  (inputType = "quaternion" /\ validation.valid) =>
    converterQuaternion = normalizeQuaternion(parsedQuaternion)

\* The angle of a quarter turn in the given direction.
quarterAngle(positive) == IF positive THEN 90 ELSE -90

\* The quarter turns of the two tabs: a world axis and a direction.
QuarterTurns == Axes \X BOOLEAN

\* The mapping the quarter turns of the sequence turns, applied in its order to
\* the identity mapping.
RECURSIVE TurnedMapping(_)
TurnedMapping(turns) ==
  IF turns = <<>> THEN IDENTITY_MAPPING
  ELSE applyRotation(TurnedMapping(Front(turns)), Last(turns)[1], Last(turns)[2])

\* The steps of the chain tab for the sequence.
TurnSteps(turns) ==
  [i \in 1..Len(turns) |-> step(turns[i][1], quarterAngle(turns[i][2]))]

\* C22: on a mapping that is a proper rotation, a quarter turn of the axis-swap
\* tab is the world-frame product of the chain tab:
\* mappingToQuaternion(applyRotation(m, a, s)) is the rotation
\* multiply(axisAngleToQuaternion(a, +-90), mappingToQuaternion(m)); and a
\* mapping that a sequence of up to two quarter turns gives from the identity
\* is the rotation computeRotationChain gives for the steps of the sequence.
C22_SwapAgreesWithChain ==
  /\ IsProperRotationMapping(mapping) =>
       \A t \in QuarterTurns :
         SameRotation(mappingToQuaternion(applyRotation(mapping, t[1], t[2])),
                      multiplyQuaternions(axisAngleToQuaternion(t[1], quarterAngle(t[2])),
                                          mappingToQuaternion(mapping)))
  /\ \A t1 \in QuarterTurns, t2 \in QuarterTurns :
       /\ mapping = TurnedMapping(<<t1>>) =>
            SameRotation(mappingToQuaternion(mapping),
                         computeRotationChain(TurnSteps(<<t1>>)).quaternion)
       /\ mapping = TurnedMapping(<<t1, t2>>) =>
            SameRotation(mappingToQuaternion(mapping),
                         computeRotationChain(TurnSteps(<<t1, t2>>)).quaternion)

\* The identity turned about +X and then about -Y by two clicks.
C22_Witness ==
  /\ ~mappingIsConst
  /\ mapping = TurnedMapping(<<<<"x", TRUE>>, <<"y", FALSE>>>>)
  /\ mapping # IDENTITY_MAPPING

\* C23: at most one URL write is pending and it is the write of the steps as
\* they are now (a change of the steps has replaced the write scheduled before
\* it), and the value the timer writes under `chain` is the encoding of the
\* steps as they are when it fires.
C23_OnePendingWriteOfLatestSteps ==
  /\ [](/\ Len(urlUpdateTimer) <= 1
        /\ \A i \in 1..Len(urlUpdateTimer) : urlUpdateTimer[i] = steps)
  /\ [][urlUpdateTimerFires => chainParam' = setChain(steps')]_vars

\* A second change of a two-step chain is pending, the first having been replaced.
C23_Witness ==
  /\ Len(steps) = 2
  /\ steps[1].angleDeg = 90
  /\ steps[2].angleDeg = 180
  /\ urlUpdateTimer = <<steps>>
  /\ chainParam # setChain(steps)

\* C24: after a change of the chain, which leaves a write pending, the URL
\* `chain` value eventually is the encoding of the steps, also when the tab is
\* left before the timer fires.
C24_ChangeIsEventuallyPersisted ==
  [](urlUpdateTimer # <<>> => <>(chainParam = setChain(steps)))

\* C25: the Euler angles of the result of the axis-swap tab denote the rotation
\* of its quaternion: eulerToQuaternion(result.euler) is result.quaternion up to
\* sign, on every mapping that is a proper rotation.
C25_ResultEulerIsResultQuaternion ==
  IsProperRotationMapping(mapping) =>
    SameRotation(eulerToQuaternion(axisSwapResult.euler), axisSwapResult.quaternion)


\* The ids of the steps of a chain.
stepIds(chain) == {chain[i].id : i \in 1..Len(chain)}

\* C26: the chain is never empty: it has at least one step after the
\* initialisation and after every addStep, removeStep, updateStep and reset;
\* removeStep on a chain of one step, or with an id that is not in the chain,
\* leaves the chain as it is; reset leaves exactly one step, about x by 0 degrees.
C26_ChainIsNeverEmpty ==
  /\ [](/\ Len(steps) >= 1
        /\ \A id \in 1..MaxStepId :
             (Len(steps) <= 1 \/ id \notin stepIds(steps)) => removedSteps(id) = steps)
  /\ [][resetChain =>
          /\ Len(steps') = 1
          /\ steps'[1].axis = "x"
          /\ steps'[1].angleDeg = 0]_vars

\* A second step was added and removed again: the first step is the only one.
C26_Witness ==
  /\ Len(steps) = 1
  /\ steps[1].id = 1
  /\ stepIdCounter = 2
  /\ urlUpdateTimer = <<steps>>


\* The positions at which two chains of the same length differ.
changedPositions(before, after) == {i \in 1..Len(before) : after[i] # before[i]}

\* C27: the ids of the steps of the chain are pairwise distinct in every
\* reachable state, so updateStep changes at most one step and removeStep
\* removes at most one step, whatever id, axis and angle they are called with.
C27_StepIdsAreDistinct ==
  /\ \A i, j \in 1..Len(steps) : i # j => steps[i].id # steps[j].id
  /\ \A id \in 1..MaxStepId :
       /\ Len(removedSteps(id)) >= Len(steps) - 1
       /\ \A axis \in Axes, angleDeg \in ChainAngles :
            /\ Len(updatedSteps(id, axis, angleDeg)) = Len(steps)
            /\ Cardinality(changedPositions(steps, updatedSteps(id, axis, angleDeg))) <= 1

\* The page was opened without a chain, a step was added and only the added step
\* was updated.
C27_Witness ==
  /\ chainParam = <<>>
  /\ Len(steps) = 2
  /\ steps[1] = [id |-> 1, axis |-> "x", angleDeg |-> 0]
  /\ steps[2] = [id |-> 2, axis |-> "z", angleDeg |-> 90]


\* The keys of a query string.
paramKeys(params) == {params[i].key : i \in 1..Len(params)}

\* C28: each URL setter (setTab, setChain, setSwap, setUnit, setFormat) changes
\* only its own query key: whatever the URL is and whatever value is written,
\* every other key has after the call the value it had before it.
C28_SettersKeepOtherKeys ==
  \A key \in UrlKeys : \A value \in valuesWritten(key) :
    LET before == getParams
        after == parseQueryString(searchAfterSet(key, value))
    IN  \A other \in (UrlKeys \cup paramKeys(before) \cup paramKeys(after)) \ {key} :
          paramValue(after, other) = paramValue(before, other)


\* Every triple of signed-axis labels, and the proper rotations among them.
LabelTriples == [x : VALID_SIGNED_AXES, y : VALID_SIGNED_AXES, z : VALID_SIGNED_AXES]
ProperRotationMappings == {m \in LabelTriples : IsProperRotationMapping(m)}

\* The mappings that sequences of rotateX, rotateY and rotateZ, with either
\* sign, lead to from the mappings of `from`.
RECURSIVE reachableByTurns(_)
reachableByTurns(from) ==
  LET next == from \cup {applyRotation(m, axis, positive) :
                           m \in from, axis \in Axes, positive \in BOOLEAN}
  IN  IF next = from THEN from ELSE reachableByTurns(next)

\* C29: from the identity mapping the mappings reachable by rotateX, rotateY and
\* rotateZ with either sign are exactly the 24 proper rotations of the cube:
\* each signed axis permutation of determinant +1 is reached, and nothing else.
C29_ReachableAreTheProperRotations ==
  /\ IsProperRotationMapping(mapping)
  /\ reachableByTurns({IDENTITY_MAPPING}) = ProperRotationMappings
  /\ Cardinality(ProperRotationMappings) = 24

\* A proper rotation that takes three quarter turns about two axes: x -> -x,
\* y -> z, z -> y.
C29_Witness ==
  /\ mapping = [x |-> "-x", y |-> "z", z |-> "y"]
  /\ ~mappingIsConst


\* The four components of a quaternion are finite numbers.
finiteQuaternion(q) == IsFinite(q.x) /\ IsFinite(q.y) /\ IsFinite(q.z) /\ IsFinite(q.w)

\* C30: mappingToQuaternion is total on every mapping that enters the hook, the
\* 216 label triples of the URL included: the argument of the square root of the
\* selected branch is strictly positive, the components before the
\* normalisation are finite and the square of their length is strictly positive,
\* so nothing is divided by zero; the result is a finite unit quaternion.
C30_MappingToQuaternionIsTotal ==
  /\ Gt(mappingSqrtArgument(mapping), Zero)
  /\ finiteQuaternion(mappingShepperd(mapping))
  /\ Gt(lenSquared(mappingShepperd(mapping)), Zero)
  /\ LengthInField(mapping) =>
       /\ finiteQuaternion(mappingToQuaternion(mapping))
       /\ lenSquared(mappingToQuaternion(mapping)) = One

\* A triple of the URL that is no rotation: the three axes all sent to -x.
C30_Witness ==
  /\ mapping = [x |-> "-x", y |-> "-x", z |-> "-x"]
  /\ swapParam = <<"-", "x", ".", "-", "x", ".", "-", "x">>

====
